---------------------------- MODULE Spec2Model ----------------------------
(***************************************************************************)
(* A model of the x2-sharding-module: the sharding strategies (Hash, Time, *)
(* Range, Modulo), the field accessor and the cross-shard query engine.    *)
(*                                                                         *)
(* Go's 64-bit integers are modelled at their full width as little-endian  *)
(* sequences of 8 bytes (W64), because TLC's own integers are 32 bits      *)
(* wide.  Strings are sequences of ASCII codes.  A time.Time is the pair   *)
(* of its day number since 1970-01-01 and its second of the day (UTC; the  *)
(* sub-second part is dropped).                                            *)
(***************************************************************************)
EXTENDS Integers, Sequences, FiniteSets, TLC

(***************************************************************************)
(* 64-bit words                                                            *)
(***************************************************************************)
Byte == 0..255

Bit(a, k) == (a \div k) % 2

\* a ^ b on two bytes
XorByte(a, b) ==
      ((Bit(a, 1) + Bit(b, 1)) % 2)
    + ((Bit(a, 2) + Bit(b, 2)) % 2) * 2
    + ((Bit(a, 4) + Bit(b, 4)) % 2) * 4
    + ((Bit(a, 8) + Bit(b, 8)) % 2) * 8
    + ((Bit(a, 16) + Bit(b, 16)) % 2) * 16
    + ((Bit(a, 32) + Bit(b, 32)) % 2) * 32
    + ((Bit(a, 64) + Bit(b, 64)) % 2) * 64
    + ((Bit(a, 128) + Bit(b, 128)) % 2) * 128

W64Zero == <<0, 0, 0, 0, 0, 0, 0, 0>>

\* the word of a natural number below 2^31
W64FromNat(n) ==
    << n % 256, (n \div 256) % 256, (n \div 65536) % 256, (n \div 16777216) % 256,
       0, 0, 0, 0 >>

\* a + b modulo 2^64, byte by byte with the carry
W64Add(a, b) ==
    LET s1 == a[1] + b[1]
        s2 == a[2] + b[2] + (s1 \div 256)
        s3 == a[3] + b[3] + (s2 \div 256)
        s4 == a[4] + b[4] + (s3 \div 256)
        s5 == a[5] + b[5] + (s4 \div 256)
        s6 == a[6] + b[6] + (s5 \div 256)
        s7 == a[7] + b[7] + (s6 \div 256)
        s8 == a[8] + b[8] + (s7 \div 256)
    IN  << s1 % 256, s2 % 256, s3 % 256, s4 % 256,
           s5 % 256, s6 % 256, s7 % 256, s8 % 256 >>

\* a * m modulo 2^64, for a multiplier m below 2^22
W64MulSmall(a, m) ==
    LET p1 == a[1] * m
        p2 == a[2] * m + (p1 \div 256)
        p3 == a[3] * m + (p2 \div 256)
        p4 == a[4] * m + (p3 \div 256)
        p5 == a[5] * m + (p4 \div 256)
        p6 == a[6] * m + (p5 \div 256)
        p7 == a[7] * m + (p6 \div 256)
        p8 == a[8] * m + (p7 \div 256)
    IN  << p1 % 256, p2 % 256, p3 % 256, p4 % 256,
           p5 % 256, p6 % 256, p7 % 256, p8 % 256 >>

\* a * 2^40 modulo 2^64
W64Shl40(a) == <<0, 0, 0, 0, 0, a[1], a[2], a[3]>>

\* the two's complement of a
W64Neg(a) ==
    W64Add(<< 255 - a[1], 255 - a[2], 255 - a[3], 255 - a[4],
              255 - a[5], 255 - a[6], 255 - a[7], 255 - a[8] >>, W64FromNat(1))

\* the sign bit of a as an int64
W64IsNeg(a) == a[8] >= 128

\* unsigned a / d and a % d, for a divisor 0 < d < 2^22: long division from
\* the most significant byte
W64DivMod(a, d) ==
    LET c8 == a[8]
        c7 == (c8 % d) * 256 + a[7]
        c6 == (c7 % d) * 256 + a[6]
        c5 == (c6 % d) * 256 + a[5]
        c4 == (c5 % d) * 256 + a[4]
        c3 == (c4 % d) * 256 + a[3]
        c2 == (c3 % d) * 256 + a[2]
        c1 == (c2 % d) * 256 + a[1]
    IN  [q |-> << c1 \div d, c2 \div d, c3 \div d, c4 \div d,
                  c5 \div d, c6 \div d, c7 \div d, c8 \div d >>,
         r |-> c1 % d]

\* Go's int64 division and remainder, truncated toward zero, d > 0
W64SDiv(a, d) ==
    IF W64IsNeg(a) THEN W64Neg(W64DivMod(W64Neg(a), d).q)
    ELSE W64DivMod(a, d).q

W64SRem(a, d) ==
    IF W64IsNeg(a) THEN 0 - W64DivMod(W64Neg(a), d).r
    ELSE W64DivMod(a, d).r

RECURSIVE W64CmpFrom(_, _, _)
W64CmpFrom(a, b, i) ==
    IF i = 0 THEN 0
    ELSE IF a[i] < b[i] THEN -1
    ELSE IF a[i] > b[i] THEN 1
    ELSE W64CmpFrom(a, b, i - 1)

\* unsigned comparison: -1, 0 or 1
W64UCmp(a, b) == W64CmpFrom(a, b, 8)

\* signed comparison: -1, 0 or 1
W64SCmp(a, b) ==
    IF W64IsNeg(a) /\ ~W64IsNeg(b) THEN -1
    ELSE IF ~W64IsNeg(a) /\ W64IsNeg(b) THEN 1
    ELSE W64UCmp(a, b)

\* whether the unsigned word is below 2^31, and then its value
W64FitsNat(a) == a[5] = 0 /\ a[6] = 0 /\ a[7] = 0 /\ a[8] = 0 /\ a[4] < 128
W64ToNat(a) == a[1] + 256 * a[2] + 65536 * a[3] + 16777216 * a[4]

\* whether the int64 lies in -2^31+1 .. 2^31-1, and then its value
W64FitsInt(a) == IF W64IsNeg(a) THEN W64FitsNat(W64Neg(a)) ELSE W64FitsNat(a)
W64ToInt(a) == IF W64IsNeg(a) THEN 0 - W64ToNat(W64Neg(a)) ELSE W64ToNat(a)

\* the int64 of a TLC integer
W64FromInt(n) == IF n < 0 THEN W64Neg(W64FromNat(0 - n)) ELSE W64FromNat(n)

(***************************************************************************)
(* Strings (sequences of ASCII codes) and decimal formatting               *)
(***************************************************************************)
RECURSIVE NatDigits(_)
NatDigits(n) ==
    IF n < 10 THEN <<48 + n>> ELSE NatDigits(n \div 10) \o <<48 + (n % 10)>>

RECURSIVE W64UDigits(_)
W64UDigits(a) ==
    LET dm == W64DivMod(a, 10)
    IN  IF dm.q = W64Zero THEN <<48 + dm.r>>
        ELSE W64UDigits(dm.q) \o <<48 + dm.r>>

\* fmt.Sprintf("%d", v) of an unsigned integer
FormatUint(a) == W64UDigits(a)

\* fmt.Sprintf("%d", v) of a signed integer
FormatInt(a) ==
    IF W64IsNeg(a) THEN <<45>> \o W64UDigits(W64Neg(a)) ELSE W64UDigits(a)

RECURSIVE PadDigits(_, _)
\* n in decimal, zero-padded on the left to at least width digits
PadDigits(n, width) ==
    IF width <= 1 THEN NatDigits(n)
    ELSE IF Len(NatDigits(n)) >= width THEN NatDigits(n)
    ELSE <<48>> \o PadDigits(n, width - 1)

(***************************************************************************)
(* Shard key values (interface{} values with their dynamic type)           *)
(***************************************************************************)
SignedTypes   == {"int", "int8", "int16", "int32", "int64"}
UnsignedTypes == {"uint", "uint8", "uint16", "uint32", "uint64"}
IntTypes      == SignedTypes \cup UnsignedTypes

NoTime == [day |-> 0, sod |-> 0]

NilKey        == [type |-> "nil",    w |-> W64Zero, s |-> << >>, t |-> NoTime]
IntKey(ty, a) == [type |-> ty,       w |-> a,       s |-> << >>, t |-> NoTime]
StrKey(str)   == [type |-> "string", w |-> W64Zero, s |-> str,   t |-> NoTime]
BoolKey(b)    == [type |-> "bool",   w |-> W64FromNat(IF b THEN 1 ELSE 0),
                  s |-> << >>, t |-> NoTime]
TimeKey(tm)   == [type |-> "time",   w |-> W64Zero, s |-> << >>, t |-> tm]

(***************************************************************************)
(* Table names: fmt.Sprintf("%s_%d", base, index) and "%s_%s" are modelled *)
(* as the pair of the base name and the suffix string; the empty suffix    *)
(* stands for the base name itself                                         *)
(***************************************************************************)
TableName(base, suffix) == [base |-> base, suffix |-> suffix]

IndexedName(base, i) == TableName(base, NatDigits(i))

\* base_0 .. base_{count-1}, in order
IndexedNames(base, count) == [i \in 1..count |-> IndexedName(base, i - 1)]

SeqRange(q) == {q[i] : i \in 1..Len(q)}

(***************************************************************************)
(* Hash strategy                                                           *)
(***************************************************************************)
\* hash/fnv: the 64-bit FNV-1a offset basis 0xcbf29ce484222325
FnvOffset64 == <<37, 35, 34, 132, 228, 156, 242, 203>>

\* h * 0x100000001b3 (the 64-bit FNV prime, 2^40 + 435) modulo 2^64
FnvMulPrime(h) == W64Add(W64MulSmall(h, 435), W64Shl40(h))

RECURSIVE FnvWrite(_, _, _)
FnvWrite(h, bytes, i) ==
    IF i > Len(bytes) THEN h
    ELSE LET next == FnvMulPrime([h EXCEPT ![1] = XorByte(h[1], bytes[i])])
         IN  IF Len(next) = 8 THEN FnvWrite(next, bytes, i + 1) ELSE next

\* fnv.New64a(); Write(bytes); Sum64()
Fnv64a(bytes) == FnvWrite(FnvOffset64, bytes, 1)

\* the bytes hashValue writes for a key
HashBytes(v) ==
    IF v.type = "string" THEN v.s
    ELSE IF v.type \in SignedTypes THEN FormatInt(v.w)
    ELSE IF v.type \in UnsignedTypes THEN FormatUint(v.w)
    ELSE IF v.type = "bool"
         THEN (IF v.w = W64Zero THEN <<102, 97, 108, 115, 101>> ELSE <<116, 114, 117, 101>>)
    ELSE << >>

hashValue(v) == Fnv64a(HashBytes(v))

\* the default branch on a nil key (or a nil pointer): rv.Interface() is called
\* on the zero reflect.Value and panics
hashValuePanics(v) == v.type = "nil"

NewHashShardingStrategy(base, tableCount) ==
    [kind |-> "hash", base |-> base,
     count |-> IF tableCount <= 0 THEN 1 ELSE tableCount,
     rangeSize |-> 0, unit |-> 0, fieldType |-> 0]

\* a slip in the modulus: hashValue % uint64(tableCount + 1)
HashTableIndexOffByOne(s, v) == W64DivMod(hashValue(v), s.count + 1).r

\* hashValue % uint64(tableCount)
HashTableIndex(s, v) == W64DivMod(hashValue(v), s.count).r

HashGetTableName(s, base, v) == IndexedName(base, HashTableIndex(s, v))

HashGetAllTableNames(s, base) == IndexedNames(base, s.count)

(***************************************************************************)
(* Range and Modulo strategies                                             *)
(***************************************************************************)
\* the types the numeric switch of Range and Modulo lists
NumericCaseTypes == {"int", "int32", "int64", "uint", "uint32", "uint64"}

NewRangeShardingStrategy(base, rangeSize, tableCount) ==
    [kind |-> "range", base |-> base,
     count |-> IF tableCount <= 0 THEN 1 ELSE tableCount,
     rangeSize |-> IF rangeSize <= 0 THEN 10000 ELSE rangeSize,
     unit |-> 0, fieldType |-> 0]

\* a slip in the upper limit: tableIndex > s.tableCount instead of >=
RangeTableIndexLooseLimit(s, v) ==
    LET tableIndex == W64SDiv(v.w, s.rangeSize)
    IN  IF W64SCmp(tableIndex, W64FromNat(s.count)) > 0 THEN s.count - 1
        ELSE IF W64IsNeg(tableIndex) THEN 0
        ELSE W64ToNat(tableIndex)

\* int(intValue / s.rangeSize), limited to 0 .. tableCount-1
RangeTableIndex(s, v) ==
    LET tableIndex == W64SDiv(v.w, s.rangeSize)
    IN  IF W64SCmp(tableIndex, W64FromNat(s.count)) >= 0 THEN s.count - 1
        ELSE IF W64IsNeg(tableIndex) THEN 0
        ELSE W64ToNat(tableIndex)

RangeGetTableName(s, base, v) ==
    IF v.type \in NumericCaseTypes
    THEN IndexedName(base, RangeTableIndex(s, v))
    ELSE HashGetTableName(NewHashShardingStrategy(base, s.count), base, v)

RangeGetAllTableNames(s, base) == IndexedNames(base, s.count)

NewModuloShardingStrategy(base, modulo) ==
    [kind |-> "modulo", base |-> base,
     count |-> IF modulo <= 0 THEN 1 ELSE modulo,
     rangeSize |-> 0, unit |-> 0, fieldType |-> 0]

\* int(intValue) % s.modulo, a negative remainder negated
ModuloTableIndex(s, v) ==
    LET tableIndex == W64SRem(v.w, s.count)
    IN  IF tableIndex < 0 THEN (0 - tableIndex) % s.count ELSE tableIndex

ModuloGetTableName(s, base, v) ==
    IF v.type \in NumericCaseTypes
    THEN IndexedName(base, ModuloTableIndex(s, v))
    ELSE HashGetTableName(NewHashShardingStrategy(base, s.count), base, v)

ModuloGetAllTableNames(s, base) == IndexedNames(base, s.count)

(***************************************************************************)
(* time.Time: [day, sod], the proleptic Gregorian calendar                 *)
(***************************************************************************)
\* year, month, day of a day number (days since 1970-01-01)
CivilFromDays(z0) ==
    LET z   == z0 + 719468
        era == z \div 146097
        doe == z - era * 146097
        yoe == (doe - (doe \div 1460) + (doe \div 36524) - (doe \div 146096)) \div 365
        doy == doe - (365 * yoe + (yoe \div 4) - (yoe \div 100))
        mp  == (5 * doy + 2) \div 153
        d   == doy - ((153 * mp + 2) \div 5) + 1
        m   == IF mp < 10 THEN mp + 3 ELSE mp - 9
    IN  [y |-> yoe + era * 400 + (IF m <= 2 THEN 1 ELSE 0), m |-> m, d |-> d]

\* the day number of year y, month m in 1..12, and any day offset d
DaysFromCivil(y0, m, d) ==
    LET y   == y0 - (IF m <= 2 THEN 1 ELSE 0)
        era == y \div 400
        yoe == y - era * 400
        doy == ((153 * (IF m > 2 THEN m - 3 ELSE m + 9) + 2) \div 5) + d - 1
        doe == yoe * 365 + (yoe \div 4) - (yoe \div 100) + doy
    IN  era * 146097 + doe - 719468

IsLeap(y) == (y % 4 = 0) /\ ((y % 100 # 0) \/ (y % 400 = 0))

DaysIn(m, y) ==
    IF m = 2 THEN (IF IsLeap(y) THEN 29 ELSE 28)
    ELSE IF m \in {4, 6, 9, 11} THEN 30 ELSE 31

\* time.Date(y, m, d, hh, mm, ss, 0, UTC) with Go's normalisation of a month
\* outside 1..12 and of a day outside the month
TimeDate(y, m, d, hh, mm, ss) ==
    LET m0 == m - 1
        yn == y + (m0 \div 12)
        mn == (m0 % 12) + 1
    IN  [day |-> DaysFromCivil(yn, mn, d), sod |-> hh * 3600 + mm * 60 + ss]

\* t.AddDate(years, months, days)
TimeAddDate(t, years, months, days) ==
    LET c == CivilFromDays(t.day)
    IN  [day |-> TimeDate(c.y + years, c.m + months, c.d + days, 0, 0, 0).day,
         sod |-> t.sod]

\* t.Add(d) for a duration of secs seconds
TimeAdd(t, secs) ==
    LET total == t.sod + secs
    IN  [day |-> t.day + (total \div 86400), sod |-> total % 86400]

TimeBefore(a, b) == a.day < b.day \/ (a.day = b.day /\ a.sod < b.sod)
TimeEqual(a, b)  == a.day = b.day /\ a.sod = b.sod
TimeAfter(a, b)  == TimeBefore(b, a)

\* time.Unix(sec, 0) for an int64 sec whose day number fits a TLC integer
TimeUnix(sec) ==
    IF W64IsNeg(sec)
    THEN LET dm == W64DivMod(W64Neg(sec), 86400)
         IN  IF dm.r = 0 THEN [day |-> 0 - W64ToNat(dm.q), sod |-> 0]
             ELSE [day |-> 0 - W64ToNat(dm.q) - 1, sod |-> 86400 - dm.r]
    ELSE LET dm == W64DivMod(sec, 86400)
         IN  [day |-> W64ToNat(dm.q), sod |-> dm.r]

\* t.Format(layout) for the layouts of getTimeFormat, by sharding unit
TimeFormat(t, unit) ==
    LET c == CivilFromDays(t.day)
    IN  PadDigits(c.y, 4)
        \o (IF unit = 0 THEN << >> ELSE PadDigits(c.m, 2))
        \o (IF unit \in {2, 3, 4} THEN PadDigits(c.d, 2) ELSE << >>)
        \o (IF unit \in {3, 4} THEN PadDigits(t.sod \div 3600, 2) ELSE << >>)
        \o (IF unit = 4 THEN PadDigits((t.sod % 3600) \div 60, 2) ELSE << >>)

\* t.Format("2006-01-02") and t.Format("2006-01-02 15:04:05")
TimeFormatDate(t) ==
    LET c == CivilFromDays(t.day)
    IN  PadDigits(c.y, 4) \o <<45>> \o PadDigits(c.m, 2) \o <<45>> \o PadDigits(c.d, 2)

TimeFormatDateTime(t) ==
    TimeFormatDate(t) \o <<32>> \o PadDigits(t.sod \div 3600, 2) \o <<58>>
    \o PadDigits((t.sod % 3600) \div 60, 2) \o <<58>> \o PadDigits(t.sod % 60, 2)

\* FormatTimeTableName(base, t, s.timeFormat)
FormatTimeTableName(base, t, unit) == TableName(base, TimeFormat(t, unit))

(***************************************************************************)
(* time.Parse for the layouts of parseStringTime, and strconv.ParseInt     *)
(***************************************************************************)
IsDigit(c) == c >= 48 /\ c <= 57

AllDigits(str, from, to) == \A i \in from..to : IsDigit(str[i])

Num2(str, i) == (str[i] - 48) * 10 + (str[i + 1] - 48)

Num4(str, i) == Num2(str, i) * 100 + Num2(str, i + 2)

\* "2006-01-02" at positions 1..10
DateShape(str) ==
    /\ Len(str) >= 10
    /\ AllDigits(str, 1, 4) /\ str[5] = 45
    /\ AllDigits(str, 6, 7) /\ str[8] = 45
    /\ AllDigits(str, 9, 10)

\* "15:04:05" at positions 12..19
ClockShape(str) ==
    /\ Len(str) >= 19
    /\ AllDigits(str, 12, 13) /\ str[14] = 58
    /\ AllDigits(str, 15, 16) /\ str[17] = 58
    /\ AllDigits(str, 18, 19)

DateInRange(str) ==
    /\ Num2(str, 6) >= 1 /\ Num2(str, 6) <= 12
    /\ Num2(str, 9) >= 1 /\ Num2(str, 9) <= DaysIn(Num2(str, 6), Num4(str, 1))

ClockInRange(str) ==
    Num2(str, 12) < 24 /\ Num2(str, 15) < 60 /\ Num2(str, 18) < 60

\* a fractional second that Parse accepts after the seconds field
FracTail(str, i) ==
    /\ Len(str) >= i + 1
    /\ str[i] \in {46, 44}
    /\ AllDigits(str, i + 1, Len(str))

\* "Z07:00" from position i to the end: [ok, off] with off the offset in seconds
ZoneTail(str, i) ==
    IF Len(str) = i /\ str[i] = 90 THEN [ok |-> TRUE, off |-> 0]
    ELSE IF /\ Len(str) = i + 5
            /\ str[i] \in {43, 45}
            /\ AllDigits(str, i + 1, i + 2) /\ str[i + 3] = 58
            /\ AllDigits(str, i + 4, i + 5)
            /\ Num2(str, i + 1) <= 24 /\ Num2(str, i + 4) <= 60
         THEN [ok |-> TRUE,
               off |-> (IF str[i] = 45 THEN -1 ELSE 1)
                       * (Num2(str, i + 1) * 3600 + Num2(str, i + 4) * 60)]
    ELSE [ok |-> FALSE, off |-> 0]

DateOf(str) == TimeDate(Num4(str, 1), Num2(str, 6), Num2(str, 9), 0, 0, 0)

DateTimeOf(str) ==
    TimeDate(Num4(str, 1), Num2(str, 6), Num2(str, 9),
             Num2(str, 12), Num2(str, 15), Num2(str, 18))

DateTimeShape(str, sep) ==
    DateShape(str) /\ ClockShape(str) /\ str[11] = sep
    /\ DateInRange(str) /\ ClockInRange(str)

\* time.Parse(layout, str) for the seven layouts, tried in order:
\* [ok |-> some layout matches, t |-> the instant of the first that does]
ParseLayouts(str) ==
    IF DateTimeShape(str, 32) /\ (Len(str) = 19 \/ FracTail(str, 20))
    THEN [ok |-> TRUE, t |-> DateTimeOf(str)]
    ELSE IF DateTimeShape(str, 84) /\ ZoneTail(str, 20).ok
    THEN [ok |-> TRUE, t |-> TimeAdd(DateTimeOf(str), 0 - ZoneTail(str, 20).off)]
    ELSE IF DateTimeShape(str, 84) /\ (Len(str) = 19 \/ FracTail(str, 20))
    THEN [ok |-> TRUE, t |-> DateTimeOf(str)]
    ELSE IF Len(str) = 10 /\ DateShape(str) /\ DateInRange(str)
    THEN [ok |-> TRUE, t |-> DateOf(str)]
    ELSE IF /\ DateTimeShape(str, 84) /\ Len(str) > 20 /\ str[20] \in {46, 44}
            /\ \E j \in 22..Len(str) :
                  AllDigits(str, 21, j - 1) /\ ZoneTail(str, j).ok
    THEN LET j == CHOOSE k \in 22..Len(str) :
                     AllDigits(str, 21, k - 1) /\ ZoneTail(str, k).ok
         IN  [ok |-> TRUE, t |-> TimeAdd(DateTimeOf(str), 0 - ZoneTail(str, j).off)]
    ELSE [ok |-> FALSE, t |-> NoTime]

RECURSIVE DigitsValue(_, _, _)
\* the unsigned value of the digits str[i..], at most 19 of them significant
DigitsValue(str, i, acc) ==
    IF i > Len(str) THEN acc
    ELSE DigitsValue(str, i + 1,
                     W64Add(W64MulSmall(acc, 10), W64FromNat(str[i] - 48)))

RECURSIVE FirstNonZero(_, _)
FirstNonZero(str, i) ==
    IF i >= Len(str) \/ str[i] # 48 THEN i ELSE FirstNonZero(str, i + 1)

\* 2^63
W64MinInt == <<0, 0, 0, 0, 0, 0, 0, 128>>

\* strconv.ParseInt(str, 10, 64): [ok, w]
ParseInt(str) ==
    LET signed == Len(str) >= 1 /\ str[1] \in {43, 45}
        neg    == signed /\ str[1] = 45
        from   == IF signed THEN 2 ELSE 1
        nz     == FirstNonZero(str, from)
        mag    == DigitsValue(str, nz, W64Zero)
    IN  IF Len(str) < from \/ ~AllDigits(str, from, Len(str))
        THEN [ok |-> FALSE, w |-> W64Zero]
        ELSE IF Len(str) - nz + 1 > 19
        THEN [ok |-> FALSE, w |-> W64Zero]
        ELSE IF neg
        THEN (IF W64UCmp(mag, W64MinInt) > 0 THEN [ok |-> FALSE, w |-> W64Zero]
              ELSE [ok |-> TRUE, w |-> W64Neg(mag)])
        ELSE (IF W64UCmp(mag, W64MinInt) >= 0 THEN [ok |-> FALSE, w |-> W64Zero]
              ELSE [ok |-> TRUE, w |-> mag])

(***************************************************************************)
(* Time strategy                                                           *)
(***************************************************************************)
TimeShardingByYear   == 0
TimeShardingByMonth  == 1
TimeShardingByDay    == 2
TimeShardingByHour   == 3
TimeShardingByMinute == 4

TimeFieldTypeAuto        == 0
TimeFieldTypeTime        == 1
TimeFieldTypeTimestamp   == 2
TimeFieldTypeTimestampMs == 3
TimeFieldTypeDate        == 4
TimeFieldTypeDateTime    == 5

NewTimeShardingStrategyWithType(base, unit, fieldType) ==
    [kind |-> "time", base |-> base, count |-> 0, rangeSize |-> 0,
     unit |-> unit, fieldType |-> fieldType]

NewTimeShardingStrategy(base, unit) ==
    NewTimeShardingStrategyWithType(base, unit, TimeFieldTypeAuto)

\* the constant 1e10 of the seconds/milliseconds test
W64TenE10 == <<0, 228, 11, 84, 2, 0, 0, 0>>

\* an int64 timestamp: milliseconds when > 1e10, else seconds
EpochSigned(w) ==
    IF W64SCmp(w, W64TenE10) > 0 THEN TimeUnix(W64DivMod(w, 1000).q)
    ELSE TimeUnix(w)

\* a uint64 timestamp: milliseconds when > 1e10, else seconds
EpochUnsigned(w) ==
    IF W64UCmp(w, W64TenE10) > 0 THEN TimeUnix(W64DivMod(w, 1000).q)
    ELSE TimeUnix(w)

\* the result of parseStringTime once the layouts and ParseInt have been tried
ParsedOrNow(layouts, int, now) ==
    IF layouts.ok THEN layouts.t
    ELSE IF int.ok THEN EpochSigned(int.w)
    ELSE now

parseStringTime(str, now) ==
    IF str = << >> THEN now
    ELSE ParsedOrNow(ParseLayouts(str), ParseInt(str), now)

\* the type switch of convertToTime in auto-detect mode; int8 and int16 (uint8
\* and uint16) reach the reflection branch, which applies the int64 (uint64) rule
convertAuto(v, now) ==
    IF v.type = "nil" THEN now
    ELSE IF v.type = "time" THEN v.t
    ELSE IF v.type \in {"int", "int32", "uint", "uint32"} THEN TimeUnix(v.w)
    ELSE IF v.type \in {"int64", "int8", "int16"} THEN EpochSigned(v.w)
    ELSE IF v.type \in {"uint64", "uint8", "uint16"} THEN EpochUnsigned(v.w)
    ELSE IF v.type = "string" THEN parseStringTime(v.s, now)
    ELSE now

\* t.Unix() and t.UnixMilli()
TimeToUnix(t) == W64Add(W64MulSmall(W64FromInt(t.day), 86400), W64FromNat(t.sod))
TimeToUnixMilli(t) == W64MulSmall(TimeToUnix(t), 1000)

\* t.UnixMilli() if isMillisecond, else t.Unix()
TimestampOf(t, isMillisecond) ==
    IF isMillisecond THEN TimeToUnixMilli(t) ELSE TimeToUnix(t)

convertToTimestamp(v, isMillisecond, now) ==
    IF v.type \in {"int64", "int", "int32", "uint64", "uint", "uint32"} THEN v.w
    ELSE IF v.type \in {"time", "string"}
         THEN TimestampOf(IF v.type = "time" THEN v.t ELSE parseStringTime(v.s, now),
                          isMillisecond)
    ELSE W64Zero

\* the dynamic values convertByType returns; "overflow" stands for the call
\* that never returns: convertToTime and convertByType calling each other
\* without end
AsTime(t)   == [tag |-> "time",     t |-> t,      w |-> W64Zero, s |-> << >>]
AsInt64(w)  == [tag |-> "int64",    t |-> NoTime, w |-> w,       s |-> << >>]
AsString(s) == [tag |-> "string",   t |-> NoTime, w |-> W64Zero, s |-> s]
NoReturn    == [tag |-> "overflow", t |-> NoTime, w |-> W64Zero, s |-> << >>]

\* what convertByType makes of t := s.convertToTime(value) when that call returns
Reformatted(fieldType, t) ==
    IF fieldType = TimeFieldTypeDate THEN AsString(TimeFormatDate(t))
    ELSE IF fieldType = TimeFieldTypeDateTime THEN AsString(TimeFormatDateTime(t))
    ELSE AsTime(t)

\* convertByType(value, fieldType) on strategy st. Its calls of s.convertToTime
\* (the Date and DateTime cases on a non-string, and the default case) come back
\* into convertByType with the same arguments whenever st.fieldType is not Auto
convertByType(st, v, fieldType, now) ==
    IF v.type = "nil" THEN AsTime(now)
    ELSE IF fieldType = TimeFieldTypeTime
         THEN AsTime(IF v.type = "time" THEN v.t ELSE now)
    ELSE IF fieldType \in {TimeFieldTypeTimestamp, TimeFieldTypeTimestampMs}
         THEN AsInt64(convertToTimestamp(v, fieldType = TimeFieldTypeTimestampMs, now))
    ELSE IF fieldType \in {TimeFieldTypeDate, TimeFieldTypeDateTime} /\ v.type = "string"
         THEN AsString(v.s)
    ELSE IF st.fieldType # TimeFieldTypeAuto THEN NoReturn
    ELSE Reformatted(fieldType, convertAuto(v, now))

\* result, ok := result.(time.Time) of convertToTime, else time.Now()
TimeOrNow(result, now) ==
    IF result.tag = "overflow" THEN [ok |-> FALSE, t |-> NoTime]
    ELSE IF result.tag = "time" THEN [ok |-> TRUE, t |-> result.t]
    ELSE [ok |-> TRUE, t |-> now]

\* [ok |-> the call returns, t |-> the time.Time it returns]
convertToTime(st, v, now) ==
    IF v.type = "nil" THEN [ok |-> TRUE, t |-> now]
    ELSE IF st.fieldType # TimeFieldTypeAuto
    THEN TimeOrNow(convertByType(st, v, st.fieldType, now), now)
    ELSE [ok |-> TRUE, t |-> convertAuto(v, now)]

NoName == TableName("", << >>)

\* the name of a converted time: [ok |-> the call returns, name |-> the table name]
NameOfTime(base, r, unit) ==
    IF r.ok THEN [ok |-> TRUE, name |-> FormatTimeTableName(base, r.t, unit)]
    ELSE [ok |-> FALSE, name |-> NoName]

TimeGetTableName(st, base, v, now) ==
    NameOfTime(base, convertToTime(st, v, now), st.unit)

\* the next step of the loop of GetAllTableNamesInRange
NextTime(t, unit) ==
    IF unit = TimeShardingByYear THEN TimeAddDate(t, 1, 0, 0)
    ELSE IF unit = TimeShardingByMonth THEN TimeAddDate(t, 0, 1, 0)
    ELSE IF unit = TimeShardingByDay THEN TimeAddDate(t, 0, 0, 1)
    ELSE IF unit = TimeShardingByHour THEN TimeAdd(t, 3600)
    ELSE IF unit = TimeShardingByMinute THEN TimeAdd(t, 60)
    ELSE t

RECURSIVE RangeLoop(_, _, _, _)
RangeLoop(base, currentTime, endTime, unit) ==
    IF TimeBefore(currentTime, endTime) \/ TimeEqual(currentTime, endTime)
    THEN <<FormatTimeTableName(base, currentTime, unit)>>
         \o RangeLoop(base, NextTime(currentTime, unit), endTime, unit)
    ELSE << >>

RECURSIVE UniqueNames(_, _)
\* the names of the list not in seen, each once, in first-seen order
UniqueNames(names, seen) ==
    IF names = << >> THEN << >>
    ELSE IF Head(names) \in seen THEN UniqueNames(Tail(names), seen)
    ELSE <<Head(names)>> \o UniqueNames(Tail(names), seen \cup {Head(names)})

GetAllTableNamesInRange(st, base, startTime, endTime) ==
    UniqueNames(RangeLoop(base, startTime, endTime, st.unit), {})

\* the list for two converted window ends, exchanged when start is after end
OrderedRange(st, base, a, b) ==
    IF ~a.ok \/ ~b.ok THEN [ok |-> FALSE, names |-> << >>]
    ELSE [ok |-> TRUE,
          names |-> GetAllTableNamesInRange(st, base,
                                            IF TimeAfter(a.t, b.t) THEN b.t ELSE a.t,
                                            IF TimeAfter(a.t, b.t) THEN a.t ELSE b.t)]

\* [ok |-> the call returns, names |-> the list]
GetAllTableNamesInRangeWithValues(st, base, startValue, endValue, now) ==
    OrderedRange(st, base, convertToTime(st, startValue, now),
                 convertToTime(st, endValue, now))

\* the default window of the fan-out entry points: the last year up to now
DefaultRangeNames(st, base, now) ==
    GetAllTableNamesInRange(st, base, TimeAddDate(now, -1, 0, 0), now)

TimeGetAllTableNames(st, base) == <<TableName(base, << >>)>>

(***************************************************************************)
(* The ShardingStrategy interface, dispatched on the strategy's kind       *)
(***************************************************************************)
\* [ok |-> the call returns, name |-> the table name]
GetTableName(st, base, v, now) ==
    IF st.kind # "time" /\ hashValuePanics(v) THEN [ok |-> FALSE, name |-> NoName]
    ELSE IF st.kind = "hash" THEN [ok |-> TRUE, name |-> HashGetTableName(st, base, v)]
    ELSE IF st.kind = "range" THEN [ok |-> TRUE, name |-> RangeGetTableName(st, base, v)]
    ELSE IF st.kind = "modulo" THEN [ok |-> TRUE, name |-> ModuloGetTableName(st, base, v)]
    ELSE TimeGetTableName(st, base, v, now)

GetAllTableNames(st, base) ==
    IF st.kind = "hash" THEN HashGetAllTableNames(st, base)
    ELSE IF st.kind = "range" THEN RangeGetAllTableNames(st, base)
    ELSE IF st.kind = "modulo" THEN ModuloGetAllTableNames(st, base)
    ELSE TimeGetAllTableNames(st, base)

\* the constructor call described by c = [kind, base, a1, a2]
Build(c) ==
    IF c.kind = "hash" THEN NewHashShardingStrategy(c.base, c.a1)
    ELSE IF c.kind = "range" THEN NewRangeShardingStrategy(c.base, c.a2, c.a1)
    ELSE IF c.kind = "modulo" THEN NewModuloShardingStrategy(c.base, c.a1)
    ELSE NewTimeShardingStrategyWithType(c.base, c.a1, c.a2)

\* getTableNamesWithTimeRange(strategy, baseTableName, timeRanges): hasRange says
\* whether timeRanges holds a window for the base table
getTableNamesWithTimeRange(st, base, hasRange, startTime, endTime, now) ==
    IF st.kind # "time" THEN GetAllTableNames(st, base)
    ELSE IF hasRange THEN GetAllTableNamesInRange(st, base, startTime, endTime)
    ELSE DefaultRangeNames(st, base, now)

(***************************************************************************)
(* Bounds and inputs of the model                                          *)
(***************************************************************************)
\* the largest shard count (and modulus) a strategy is constructed with
MaxTableCount == 4
\* small integer keys run over -MaxSmallKey .. MaxSmallKey
MaxSmallKey == 2
\* the clock advances at most this many times
MaxTicks == 1

\* the wall clock: 2024-12-31 23:59:30 UTC, advancing 45 s a tick, so that the
\* minute, hour, day, month and year all change within the ticks
NowAt(k) == TimeAdd(TimeDate(2024, 12, 31, 23, 59, 30), 45 * k)

Ctor(kind, base, a1, a2) == [kind |-> kind, base |-> base, a1 |-> a1, a2 |-> a2]

CountedConfigs ==
    {Ctor("hash", "users", n, 0) : n \in -1..MaxTableCount}
    \cup {Ctor("modulo", "items", n, 0) : n \in -1..MaxTableCount}
    \cup {Ctor("range", "orders", n, rs) : n \in {0, 3, MaxTableCount}, rs \in {0, 100}}

TimeConfigs ==
    {Ctor("time", "logs", u, ft) :
        u \in TimeShardingByYear..TimeShardingByMinute,
        ft \in TimeFieldTypeAuto..TimeFieldTypeDateTime}

StrategyConfigs == CountedConfigs \cup TimeConfigs

\* 1705305600 (2024-01-15 08:00:00 UTC) and the same instant in milliseconds
EpochSec == W64FromNat(1705305600)
EpochMs  == W64MulSmall(EpochSec, 1000)

W64MaxInt  == <<255, 255, 255, 255, 255, 255, 255, 127>>
W64MaxUint == <<255, 255, 255, 255, 255, 255, 255, 255>>

Str123      == <<49, 50, 51>>
StrAbc      == <<97, 98, 99>>
StrMinus7   == <<45, 55>>
StrDate     == <<50, 48, 50, 52, 45, 48, 49, 45, 49, 53>>
StrBadDate  == <<50, 48, 50, 52, 45, 48, 50, 45, 51, 48>>
StrDateTime == StrDate \o <<32, 49, 48, 58, 51, 48, 58, 48, 48>>
StrRfc3339  == StrDate \o <<84, 49, 48, 58, 51, 48, 58, 48, 48, 90>>
StrEpochSec == FormatInt(EpochSec)
StrEpochMs  == FormatInt(EpochMs)

\* the keys offered to Hash, Range and Modulo
CountedKeys ==
    {IntKey(ty, W64FromInt(n)) : ty \in {"int", "int64"}, n \in -MaxSmallKey..MaxSmallKey}
    \cup {IntKey("int", W64FromInt(n)) : n \in {123, -123, 250, 25000, -25000}}
    \cup {IntKey("int64", w) : w \in {EpochMs, W64MaxInt, W64MinInt}}
    \cup {IntKey("int32", W64FromInt(n)) : n \in {123, -2147483647}}
    \cup {IntKey("int16", W64FromInt(n)) : n \in {300, -300}}
    \cup {IntKey("int8", W64FromInt(n)) : n \in {5, -128}}
    \cup {IntKey("uint", w) : w \in {W64FromNat(123), W64MaxUint}}
    \cup {IntKey("uint64", w) : w \in {W64FromNat(250), W64MinInt, W64MaxUint}}
    \cup {IntKey("uint32", W64FromNat(123)), IntKey("uint16", W64FromNat(65535)),
          IntKey("uint8", W64FromNat(255))}
    \cup {StrKey(str) : str \in {Str123, StrAbc, StrMinus7, << >>}}
    \cup {BoolKey(TRUE), BoolKey(FALSE), NilKey}

\* the keys offered to the Time strategy
TimeKeys ==
    {NilKey, TimeKey(TimeDate(2024, 3, 15, 10, 30, 0)), BoolKey(TRUE)}
    \cup {IntKey(ty, EpochSec) : ty \in {"int", "int32", "int64", "uint", "uint32", "uint64"}}
    \cup {IntKey(ty, EpochMs) : ty \in {"int", "int64", "uint", "uint64"}}
    \cup {IntKey("int64", w) : w \in {W64TenE10, W64Add(W64TenE10, W64FromNat(1)),
                                       W64FromInt(-86400)}}
    \cup {IntKey("int", W64FromInt(n)) : n \in 0..MaxSmallKey}
    \cup {IntKey("int16", W64FromNat(30000)), IntKey("uint8", W64FromNat(200))}
    \cup {StrKey(str) : str \in {StrDate, StrDateTime, StrRfc3339, StrBadDate,
                                 StrEpochSec, StrEpochMs, StrAbc, << >>}}

KeysFor(st) == IF st.kind = "time" THEN TimeKeys ELSE CountedKeys

(***************************************************************************)
(* State                                                                   *)
(***************************************************************************)
VARIABLES
    clock,      \* how often the wall clock has advanced; time.Now() is NowAt(clock)
    ctor,       \* the constructor call that made the strategy
    strategy,   \* the strategy instance
    lastCall,   \* the latest call on the strategy and what it returned
    firstCall,  \* the first of the run of calls with the latest call's arguments
    model,      \* the value handed to the latest ExtractValue call
    fieldName,  \* the field name handed to it
    extracted,  \* what that call returned
    tables,     \* the store: the state and rows of every shard table
    dest,       \* the caller's destination slice
    fanout,     \* the fan-out call in progress and its position
    issued,     \* the queries sent to the store by the call, in order
    fetched,    \* the rows each answered query of the call returned, in order
    outcome,    \* what the latest fan-out call returned
    paginator,  \* the latest paginated call and the Paginator it returned
    sweep,      \* the page lengths of the run of calls for pages 1, 2, ...
    dedupCall,  \* the list and field groups handed to deduplicateResults
    deduplicated, \* what deduplicateResults returned
    shards,     \* the store of the join entry points: rows of every shard table
    joinCall,   \* the latest join call: its arguments and the queries it sent
    joined,     \* what the latest join call returned and delivered
    inserted,   \* the latest write call and the insert it issued
    strategies  \* h.strategies of the ShardingHelper: base table name to strategy

nameVars    == <<clock, ctor, strategy, lastCall, firstCall>>
extractVars == <<model, fieldName, extracted>>
queryVars   == <<tables, dest, fanout, issued, fetched, outcome>>

pageVars    == <<paginator, sweep>>
dedupVars   == <<dedupCall, deduplicated>>
joinVars    == <<shards, joinCall, joined>>
writeVars   == <<inserted, strategies>>
entryVars   == <<pageVars, dedupVars, joinVars, writeVars>>

vars == <<nameVars, extractVars, queryVars, entryVars>>

Now == NowAt(clock)

NoCall ==
    [op |-> "none", key |-> NilKey, key2 |-> NilKey, ok |-> TRUE,
     name |-> NoName, names |-> << >>]

\* the record of a call that resolved a name, r = [ok, name]
NameReturned(op, key, r) ==
    [op |-> op, key |-> key, key2 |-> NilKey, ok |-> r.ok,
     name |-> r.name, names |-> << >>]

\* the record of a call that listed names, r = [ok, names]
NamesReturned(op, key, key2, r) ==
    [op |-> op, key |-> key, key2 |-> key2, ok |-> r.ok,
     name |-> NoName, names |-> r.names]

\* a list that a call returned
Listed(names) == [ok |-> TRUE, names |-> names]

SameArguments(a, b) == a.op = b.op /\ a.key = b.key /\ a.key2 = b.key2

\* record a call: firstCall keeps the first result of a run of equal calls
Record(call) ==
    /\ lastCall' = call
    /\ firstCall' = IF SameArguments(lastCall, call) THEN firstCall ELSE call

\* no paginated call has been made
NoPaging ==
    /\ paginator = [op |-> "none"]
    /\ sweep = [op |-> "none"]

\* deduplicateResults has not been called
NoDedup ==
    /\ dedupCall = [op |-> "none"]
    /\ deduplicated = << >>

\* no join store is attached and no join call has been made
NoJoin ==
    /\ shards = << >>
    /\ joinCall = [op |-> "none"]
    /\ joined = [op |-> "none"]

\* no write call has been made
NoWrite ==
    /\ inserted = [op |-> "none"]
    /\ strategies = << >>

EntryPointsIdle == NoPaging /\ NoDedup /\ NoJoin /\ NoWrite

\* no ExtractValue call has been made
NoExtraction ==
    /\ model = [kind |-> "nil", fields |-> << >>]
    /\ fieldName = << >>
    /\ extracted = [ok |-> FALSE, value |-> 0, err |-> "no call"]

\* no store is attached and no fan-out call has been made
NoFanOut ==
    /\ tables = << >>
    /\ dest = << >>
    /\ fanout = [op |-> "none"]
    /\ issued = << >>
    /\ fetched = << >>
    /\ outcome = [done |-> FALSE, err |-> << >>, total |-> 0]

(***************************************************************************)
(* Strategy name resolution                                                *)
(***************************************************************************)
InitNames ==
    /\ clock = 0
    /\ ctor \in StrategyConfigs
    /\ strategy = Build(ctor)
    /\ lastCall = NoCall
    /\ firstCall = NoCall
    /\ NoExtraction
    /\ EntryPointsIdle
    /\ NoFanOut

\* the wall clock advances
Tick ==
    /\ clock < MaxTicks
    /\ clock' = clock + 1
    /\ UNCHANGED <<ctor, strategy, lastCall, firstCall, extractVars, queryVars, entryVars>>

\* strategy.GetTableName(strategy.GetBaseTableName(), v)
CallGetTableName(v) ==
    /\ Record(NameReturned("GetTableName", v,
                           GetTableName(strategy, strategy.base, v, Now)))
    /\ UNCHANGED <<clock, ctor, strategy, extractVars, queryVars, entryVars>>

\* strategy.GetAllTableNames(strategy.GetBaseTableName())
CallGetAllTableNames ==
    /\ Record(NamesReturned("GetAllTableNames", NilKey, NilKey,
                            Listed(GetAllTableNames(strategy, strategy.base))))
    /\ UNCHANGED <<clock, ctor, strategy, extractVars, queryVars, entryVars>>

NextNames ==
    \/ Tick
    \/ \E v \in KeysFor(strategy) : CallGetTableName(v)
    \/ CallGetAllTableNames

SpecNames == InitNames /\ [][NextNames]_vars

(***************************************************************************)
(* Properties of name resolution                                           *)
(***************************************************************************)
\* the shard count a constructor argument stands for: N <= 0 behaves as 1
EffectiveCount(c) == IF c.a1 <= 0 THEN 1 ELSE c.a1

ResolvedKey == lastCall.op = "GetTableName" /\ lastCall.key.type # "nil"

DeclaredInstant(fieldType, v) ==
    IF fieldType = TimeFieldTypeTime
    THEN [has |-> v.type = "time", t |-> v.t]
    ELSE IF fieldType = TimeFieldTypeTimestamp
    THEN [has |-> v.type \in {"int64", "uint64"} /\ ~W64IsNeg(v.w),
          t |-> TimeUnix(v.w)]
    ELSE IF fieldType = TimeFieldTypeTimestampMs
    THEN [has |-> v.type \in {"int64", "uint64"} /\ ~W64IsNeg(v.w),
          t |-> TimeUnix(W64DivMod(v.w, 1000).q)]
    ELSE IF fieldType = TimeFieldTypeDate
    THEN [has |-> v.type = "string" /\ Len(v.s) = 10 /\ ParseLayouts(v.s).ok,
          t |-> ParseLayouts(v.s).t]
    ELSE [has |-> v.type = "string" /\ Len(v.s) = 19 /\ DateTimeShape(v.s, 32),
          t |-> ParseLayouts(v.s).t]

\* C5: a Time strategy constructed with an explicit field encoding resolves a
\* key of that encoding to the shard of the instant the key denotes under the
\* encoding (seconds-epoch 1705305600 by day gives base_20240115)
C5_ExplicitEncodingTrusted ==
    (/\ strategy.kind = "time"
     /\ strategy.fieldType # TimeFieldTypeAuto
     /\ lastCall.op = "GetTableName"
     /\ DeclaredInstant(strategy.fieldType, lastCall.key).has) =>
        /\ lastCall.ok
        /\ lastCall.name =
               FormatTimeTableName(strategy.base,
                                   DeclaredInstant(strategy.fieldType, lastCall.key).t,
                                   strategy.unit)

\* the magnitude rule: seconds when |w| <= 1e10, milliseconds otherwise
\* [has |-> the rule is stated for w, t |-> the instant it gives]
MagnitudeRule(w, signed) ==
    IF signed /\ W64IsNeg(w)
    THEN [has |-> W64UCmp(W64Neg(w), W64TenE10) <= 0, t |-> TimeUnix(w)]
    ELSE [has |-> TRUE,
          t |-> IF W64UCmp(w, W64TenE10) > 0 THEN TimeUnix(W64DivMod(w, 1000).q)
                ELSE TimeUnix(w)]

\* the integer an auto-detected key carries: an integer of any integer type, or
\* a string that matches no date pattern and parses as an integer
AutoInteger(v) ==
    IF v.type \in IntTypes
    THEN [has |-> TRUE, w |-> v.w, signed |-> v.type \in SignedTypes]
    ELSE IF v.type = "string" /\ v.s # << >> /\ ~ParseLayouts(v.s).ok /\ ParseInt(v.s).ok
    THEN [has |-> TRUE, w |-> ParseInt(v.s).w, signed |-> TRUE]
    ELSE [has |-> FALSE, w |-> W64Zero, signed |-> FALSE]

\* C6: in auto-detect mode an integer key of any integer type, and a string that
\* matches no date pattern but parses as an integer, is taken as epoch seconds
\* when its magnitude is at most 10^10 and as epoch milliseconds otherwise
C6_AutoDetectMagnitudeRule ==
    (/\ strategy.kind = "time"
     /\ strategy.fieldType = TimeFieldTypeAuto
     /\ lastCall.op = "GetTableName"
     /\ AutoInteger(lastCall.key).has
     /\ MagnitudeRule(AutoInteger(lastCall.key).w, AutoInteger(lastCall.key).signed).has) =>
        /\ lastCall.ok
        /\ lastCall.name =
               FormatTimeTableName(
                   strategy.base,
                   MagnitudeRule(AutoInteger(lastCall.key).w,
                                 AutoInteger(lastCall.key).signed).t,
                   strategy.unit)

\* C7: for every strategy and every key value, two calls of GetTableName with
\* the same base name and key return the same table name, whenever they are made
C7_GetTableNameDeterministic ==
    (lastCall.op = "GetTableName" /\ lastCall.ok /\ firstCall.ok) =>
        firstCall.name = lastCall.name

(***************************************************************************)
(* Time windows                                                            *)
(***************************************************************************)
\* the instants offered as window ends, a few steps of the strategy's unit apart
WindowInstants(unit) ==
    IF unit = TimeShardingByYear
    THEN {TimeDate(2023, 6, 15, 0, 0, 0), TimeDate(2024, 2, 29, 12, 0, 0),
          TimeDate(2024, 12, 31, 23, 59, 59), TimeDate(2025, 1, 1, 0, 0, 0),
          TimeDate(2026, 3, 1, 0, 0, 0)}
    ELSE IF unit = TimeShardingByMonth
    THEN {TimeDate(2024, 1, 1, 0, 0, 0), TimeDate(2024, 1, 15, 0, 0, 0),
          TimeDate(2024, 1, 31, 0, 0, 0), TimeDate(2024, 2, 10, 0, 0, 0),
          TimeDate(2024, 3, 5, 0, 0, 0), TimeDate(2024, 3, 31, 0, 0, 0)}
    ELSE IF unit = TimeShardingByDay
    THEN {TimeDate(2024, 12, 28, 0, 0, 0), TimeDate(2024, 12, 29, 8, 0, 0),
          TimeDate(2024, 12, 29, 20, 0, 0), TimeDate(2024, 12, 30, 7, 0, 0),
          TimeDate(2025, 1, 1, 0, 0, 0)}
    ELSE IF unit = TimeShardingByHour
    THEN {TimeDate(2024, 12, 31, 21, 0, 0), TimeDate(2024, 12, 31, 21, 30, 0),
          TimeDate(2024, 12, 31, 22, 10, 0), TimeDate(2024, 12, 31, 23, 59, 59),
          TimeDate(2025, 1, 1, 0, 0, 0)}
    ELSE {TimeDate(2024, 12, 31, 23, 57, 0), TimeDate(2024, 12, 31, 23, 57, 30),
          TimeDate(2024, 12, 31, 23, 58, 10), TimeDate(2024, 12, 31, 23, 59, 59),
          TimeDate(2025, 1, 1, 0, 0, 0)}

\* the window values offered to GetAllTableNamesInRangeWithValues: instants and
\* int64 epoch seconds
WindowValues(unit) ==
    {TimeKey(t) : t \in WindowInstants(unit)}
    \cup {IntKey("int64", TimeToUnix(t)) : t \in WindowInstants(unit)}

\* the units whose default one-year window is enumerated
DefaultWindowUnits == {TimeShardingByYear, TimeShardingByMonth}

RangeConfigs ==
    {Ctor("time", "logs", u, ft) :
        u \in TimeShardingByYear..TimeShardingByMinute,
        ft \in {TimeFieldTypeAuto, TimeFieldTypeTime}}

InitRange ==
    /\ clock = 0
    /\ ctor \in RangeConfigs
    /\ strategy = Build(ctor)
    /\ lastCall = NoCall
    /\ firstCall = NoCall
    /\ NoExtraction
    /\ EntryPointsIdle
    /\ NoFanOut

\* strategy.GetAllTableNamesInRange(base, startTime, endTime)
CallGetAllTableNamesInRange(startTime, endTime) ==
    /\ Record(NamesReturned("GetAllTableNamesInRange",
                            TimeKey(startTime), TimeKey(endTime),
                            Listed(GetAllTableNamesInRange(strategy, strategy.base,
                                                           startTime, endTime))))
    /\ UNCHANGED <<clock, ctor, strategy, extractVars, queryVars, entryVars>>

\* strategy.GetAllTableNamesInRangeWithValues(base, startValue, endValue)
CallGetAllTableNamesInRangeWithValues(startValue, endValue) ==
    /\ Record(NamesReturned("GetAllTableNamesInRangeWithValues", startValue, endValue,
                            GetAllTableNamesInRangeWithValues(strategy, strategy.base,
                                                              startValue, endValue, Now)))
    /\ UNCHANGED <<clock, ctor, strategy, extractVars, queryVars, entryVars>>

\* getTableNamesWithTimeRange(strategy, base, timeRanges) with a window for base
CallGetTableNamesWithTimeRange(startTime, endTime) ==
    /\ Record(NamesReturned("getTableNamesWithTimeRange",
                            TimeKey(startTime), TimeKey(endTime),
                            Listed(getTableNamesWithTimeRange(strategy, strategy.base, TRUE,
                                                              startTime, endTime, Now))))
    /\ UNCHANGED <<clock, ctor, strategy, extractVars, queryVars, entryVars>>

\* getTableNamesWithTimeRange(strategy, base, timeRanges) without a window for base
CallGetTableNamesWithoutTimeRange ==
    /\ strategy.unit \in DefaultWindowUnits
    /\ Record(NamesReturned("getTableNamesWithTimeRange", NilKey, NilKey,
                            Listed(getTableNamesWithTimeRange(strategy, strategy.base, FALSE,
                                                              NoTime, NoTime, Now))))
    /\ UNCHANGED <<clock, ctor, strategy, extractVars, queryVars, entryVars>>

NextRange ==
    \/ \E a, b \in WindowInstants(strategy.unit) : CallGetAllTableNamesInRange(a, b)
    \/ \E v, w \in WindowValues(strategy.unit) :
           CallGetAllTableNamesInRangeWithValues(v, w)
    \/ \E a, b \in WindowInstants(strategy.unit) : CallGetTableNamesWithTimeRange(a, b)
    \/ CallGetTableNamesWithoutTimeRange

SpecRange == InitRange /\ [][NextRange]_vars

\* the window a call was given, as instants
WindowGiven == lastCall.op # "none" /\ lastCall.key.type # "nil"
WindowStart == convertToTime(strategy, lastCall.key, Now).t
WindowEnd   == convertToTime(strategy, lastCall.key2, Now).t

\* C3: for every granularity and all instants start <= t <= end, the name
\* GetTableName gives for t is in GetAllTableNamesInRange(base, start, end), and
\* that list holds no name twice
C3_RangeCoversEveryInstant ==
    (/\ lastCall.op = "GetAllTableNamesInRange"
     /\ ~TimeAfter(WindowStart, WindowEnd)) =>
        /\ \A t \in WindowInstants(strategy.unit) :
               (~TimeBefore(t, WindowStart) /\ ~TimeAfter(t, WindowEnd)) =>
                   GetTableName(strategy, strategy.base, TimeKey(t), Now).name
                       \in SeqRange(lastCall.names)
        /\ \A i, j \in 1..Len(lastCall.names) :
               lastCall.names[i] = lastCall.names[j] => i = j

\* C4: GetAllTableNamesInRange called with start > end returns the list of the
\* swapped pair, and so does every caller that passes a window through to it
C4_ReversedWindowSwapped ==
    (WindowGiven /\ TimeAfter(WindowStart, WindowEnd)) =>
        lastCall.names =
            GetAllTableNamesInRange(strategy, strategy.base, WindowEnd, WindowStart)

(***************************************************************************)
(* ExtractValue: reading a field of a record by name.  A record is a kind  *)
(* and a sequence of fields in declaration order; a field has its Go name, *)
(* its gorm and json struct tags as written, whether it is exported, and   *)
(* its value.  Strings are ASCII code sequences.                           *)
(***************************************************************************)
\* the first position at or after i where sub occurs in s, 0 when none
RECURSIVE IndexFrom(_, _, _)
IndexFrom(s, sub, i) ==
    IF i + Len(sub) - 1 > Len(s) THEN 0
    ELSE IF sub = << >> THEN i
    ELSE IF s[i] = sub[1] /\ SubSeq(s, i, i + Len(sub) - 1) = sub THEN i
    ELSE IndexFrom(s, sub, i + 1)

\* strings.Contains
Contains(s, sub) == IndexFrom(s, sub, 1) # 0

\* strings.Split(s, sep)[0]
BeforeSep(s, sep) ==
    LET at == IndexFrom(s, sep, 1)
    IN  IF at = 0 THEN s ELSE SubSeq(s, 1, at - 1)

\* strings.Split(s, sep)[1], given that sep occurs in s
AfterSep(s, sep) ==
    LET rest  == SubSeq(s, IndexFrom(s, sep, 1) + Len(sep), Len(s))
    IN  BeforeSep(rest, sep)

IsSpace(c) == c \in {9, 10, 11, 12, 13, 32}

RECURSIVE TrimLeft(_)
TrimLeft(s) ==
    IF s # << >> /\ IsSpace(Head(s)) THEN TrimLeft(Tail(s)) ELSE s

RECURSIVE TrimRight(_)
TrimRight(s) ==
    IF s # << >> /\ IsSpace(s[Len(s)])
    THEN TrimRight(SubSeq(s, 1, Len(s) - 1)) ELSE s

\* strings.TrimSpace
TrimSpace(s) == TrimRight(TrimLeft(s))

IsUpper(c) == c >= 65 /\ c <= 90

LowerChar(c) == IF IsUpper(c) THEN c + 32 ELSE c

\* strings.ToLower on ASCII
ToLower(s) == [i \in 1..Len(s) |-> LowerChar(s[i])]

\* strings.EqualFold on ASCII
EqualFold(a, b) == ToLower(a) = ToLower(b)

\* toSnakeCase: an underscore before every upper-case letter but the first
\* character, then everything lower-cased
RECURSIVE SnakeFrom(_, _)
SnakeFrom(s, i) ==
    IF i > Len(s) THEN << >>
    ELSE (IF i > 1 /\ IsUpper(s[i]) THEN <<95>> ELSE << >>)
             \o <<s[i]>> \o SnakeFrom(s, i + 1)

toSnakeCase(s) == ToLower(SnakeFrom(s, 1))

TagColumn == <<99, 111, 108, 117, 109, 110, 58>>   \* "column:"

\* the gorm tag names the column fieldName
ColumnTagMatches(gormTag, name) ==
    /\ gormTag # << >>
    /\ Contains(gormTag, TagColumn)
    /\ TrimSpace(BeforeSep(AfterSep(gormTag, TagColumn), <<59>>)) = name

\* the json tag names fieldName
JsonTagMatches(jsonTag, name) ==
    /\ jsonTag # << >>
    /\ TrimSpace(BeforeSep(jsonTag, <<44>>)) = name

\* the snake_case or case-insensitive match on the field's own name
NameMatches(goName, name) ==
    toSnakeCase(goName) = name \/ EqualFold(goName, name)

\* one pass of the loop over the fields: does field f answer the lookup
LoopMatches(f, name) ==
    /\ f.exported
    /\ \/ ColumnTagMatches(f.gorm, name)
       \/ JsonTagMatches(f.json, name)
       \/ NameMatches(f.name, name)

Found(v)    == [ok |-> TRUE,  value |-> v, err |-> "none"]
Failed(why) == [ok |-> FALSE, value |-> 0, err |-> why]

Lowest(S) == CHOOSE i \in S : \A j \in S : i <= j

\* rv.FieldByName(fieldName) valid and CanInterface
ExactMatch(f, name) == f.name = name /\ f.exported

ExtractFromStruct(fields, name) ==
    LET exact  == {i \in 1..Len(fields) : ExactMatch(fields[i], name)}
        looped == {i \in 1..Len(fields) : LoopMatches(fields[i], name)}
    IN  IF exact # {} THEN Found(fields[Lowest(exact)].value)
        ELSE IF looped # {} THEN Found(fields[Lowest(looped)].value)
        ELSE Failed("field not found")

ExtractValue(m, name) ==
    IF m.kind = "nilptr" THEN Failed("value is nil")
    ELSE IF m.kind \in {"struct", "ptr"} THEN ExtractFromStruct(m.fields, name)
    ELSE Failed("unsupported value type")

(***************************************************************************)
(* Records and lookups handed to ExtractValue                              *)
(***************************************************************************)
MaxFields == 2
\* Name `gorm:"" json:"title"`
FieldName ==
    [name |-> <<78, 97, 109, 101>>,
     gorm |-> << >>,
     json |-> <<116, 105, 116, 108, 101>>,
     exported |-> TRUE, value |-> 1]
\* Heading `gorm:"column:title;size:64" json:"heading,omitempty"`
FieldHeading ==
    [name |-> <<72, 101, 97, 100, 105, 110, 103>>,
     gorm |-> <<99, 111, 108, 117, 109, 110, 58, 116, 105, 116, 108, 101, 59, 115, 105, 122, 101, 58, 54, 52>>,
     json |-> <<104, 101, 97, 100, 105, 110, 103, 44, 111, 109, 105, 116, 101, 109, 112, 116, 121>>,
     exported |-> TRUE, value |-> 2]
\* UserID (no tags)
FieldUserID ==
    [name |-> <<85, 115, 101, 114, 73, 68>>,
     gorm |-> << >>,
     json |-> << >>,
     exported |-> TRUE, value |-> 3]
\* title (no tags), unexported
FieldLowerTitle ==
    [name |-> <<116, 105, 116, 108, 101>>,
     gorm |-> << >>,
     json |-> << >>,
     exported |-> FALSE, value |-> 4]
\* Title `gorm:"column:name" json:"-"`
FieldTitle ==
    [name |-> <<84, 105, 116, 108, 101>>,
     gorm |-> <<99, 111, 108, 117, 109, 110, 58, 110, 97, 109, 101>>,
     json |-> <<45>>,
     exported |-> TRUE, value |-> 5]
\* CreatedAt `gorm:"type:datetime; column: created_at ;index" json:""`
FieldCreatedAt ==
    [name |-> <<67, 114, 101, 97, 116, 101, 100, 65, 116>>,
     gorm |-> <<116, 121, 112, 101, 58, 100, 97, 116, 101, 116, 105, 109, 101, 59, 32, 99, 111, 108, 117, 109, 110, 58, 32, 99, 114, 101, 97, 116, 101, 100, 95, 97, 116, 32, 59, 105, 110, 100, 101, 120>>,
     json |-> << >>,
     exported |-> TRUE, value |-> 6]
FieldPool == {FieldName, FieldHeading, FieldUserID, FieldLowerTitle, FieldTitle, FieldCreatedAt}

\* the field lists of at most MaxFields fields with distinct names
FieldLists ==
    {fs \in UNION {[1..n -> FieldPool] : n \in 1..MaxFields} :
        \A i, j \in 1..Len(fs) : fs[i].name = fs[j].name => i = j}

\* a struct, a pointer to a struct, a nil pointer, nil, and a non-struct
Records ==
    {[kind |-> k, fields |-> fs] : k \in {"struct", "ptr"}, fs \in FieldLists}
        \cup {[kind |-> k, fields |-> << >>] : k \in {"nilptr", "nil", "int"}}
LookupNames ==
    {<<116, 105, 116, 108, 101>>,
     <<78, 97, 109, 101>>,
     <<110, 97, 109, 101>>,
     <<117, 115, 101, 114, 95, 105, 100>>,
     <<117, 115, 101, 114, 95, 105, 95, 100>>,
     <<117, 115, 101, 114, 105, 100>>,
     <<99, 114, 101, 97, 116, 101, 100, 95, 97, 116>>,
     <<104, 101, 97, 100, 105, 110, 103>>,
     <<109, 105, 115, 115, 105, 110, 103>>}
\* title, Name, name, user_id, user_i_d, userid, created_at, heading, missing

\* the strategy is idle while records are read
InitExtract ==
    /\ clock = 0
    /\ ctor = Ctor("hash", "users", MaxTableCount, 0)
    /\ strategy = Build(ctor)
    /\ lastCall = NoCall
    /\ firstCall = NoCall
    /\ NoExtraction
    /\ EntryPointsIdle
    /\ NoFanOut

CallExtractValue(m, name) ==
    /\ model' = m
    /\ fieldName' = name
    /\ extracted' = ExtractValue(m, name)
    /\ UNCHANGED <<nameVars, queryVars, entryVars>>

NextExtract == \E m \in Records, name \in LookupNames : CallExtractValue(m, name)

SpecExtract == InitExtract /\ [][NextExtract]_vars

\* the readable fields of the record that match the lookup at a priority level:
\* 1 exact name, 2 column tag, 3 json tag, 4 snake_case or case-insensitive name
MatchesAtLevel(f, name, level) ==
    /\ f.exported
    /\ CASE level = 1 -> f.name = name
         [] level = 2 -> ColumnTagMatches(f.gorm, name)
         [] level = 3 -> JsonTagMatches(f.json, name)
         [] OTHER     -> NameMatches(f.name, name)

LevelPositions(level) ==
    IF model.kind \in {"struct", "ptr"}
    THEN {i \in 1..Len(model.fields) :
              MatchesAtLevel(model.fields[i], fieldName, level)}
    ELSE {}

MatchedLevels == {level \in 1..4 : LevelPositions(level) # {}}

\* C8: ExtractValue resolves the field by strict priority over the whole
\* record (exact name, else column tag, else json tag, else snake_case or
\* case-insensitive name), a lower-priority match on an earlier field never
\* winning over a higher-priority match on a later field, and fails with an
\* error when nothing matches or the record is nil or not a struct
C8_StrictPriorityOverRecord ==
    extracted.err # "no call" =>
        IF MatchedLevels = {}
        THEN ~extracted.ok /\ extracted.err # "none"
        ELSE /\ extracted.ok
             /\ extracted.value =
                    model.fields[Lowest(LevelPositions(Lowest(MatchedLevels)))].value

(***************************************************************************)
(* The store and the fan-out over the shard tables.  A shard table exists  *)
(* ("ok") with its rows in table order, has not been created ("missing"),  *)
(* or exists and cannot be read ("locked").  A row is its id; a query      *)
(* builder is nil or a Where clause selecting the even ids.                *)
(***************************************************************************)
\* "Error 1146 (42S02): Table 'app.shard' doesn't exist"
ErrNoSuchTable ==
    <<69, 114, 114, 111, 114, 32, 49, 49, 52, 54, 32, 40, 52, 50, 83, 48,
      50, 41, 58, 32, 84, 97, 98, 108, 101, 32, 39, 97, 112, 112, 46, 115,
      104, 97, 114, 100, 39, 32, 100, 111, 101, 115, 110, 39, 116, 32, 101,
      120, 105, 115, 116>>
\* "Error 1205 (HY000): Lock wait timeout exceeded; try restarting transaction"
ErrLockWait ==
    <<69, 114, 114, 111, 114, 32, 49, 50, 48, 53, 32, 40, 72, 89, 48, 48,
      48, 41, 58, 32, 76, 111, 99, 107, 32, 119, 97, 105, 116, 32, 116,
      105, 109, 101, 111, 117, 116, 32, 101, 120, 99, 101, 101, 100, 101,
      100, 59, 32, 116, 114, 121, 32, 114, 101, 115, 116, 97, 114, 116,
      105, 110, 103, 32, 116, 114, 97, 110, 115, 97, 99, 116, 105, 111,
      110>>
\* "no tables found"
ErrNoTablesFound ==
    <<110, 111, 32, 116, 97, 98, 108, 101, 115, 32, 102, 111, 117, 110,
      100>>
\* "doesn't exist"
PhraseDoesntExist ==
    <<100, 111, 101, 115, 110, 39, 116, 32, 101, 120, 105, 115, 116>>
\* "unknown table"
PhraseUnknownTable ==
    <<117, 110, 107, 110, 111, 119, 110, 32, 116, 97, 98, 108, 101>>
\* "table"
PhraseTable ==
    <<116, 97, 98, 108, 101>>
\* "not found"
PhraseNotFound ==
    <<110, 111, 116, 32, 102, 111, 117, 110, 100>>

NoError == << >>

\* queryBuilder(query): the rows of a table a query selects, in table order
Selected(rows, filter) ==
    IF filter = "even" THEN SelectSeq(rows, LAMBDA r : r % 2 = 0) ELSE rows

\* query.Find(tableResults): what the store answers for one table
Find(table, filter) ==
    IF table.state = "ok" THEN [err |-> NoError, rows |-> Selected(table.rows, filter)]
    ELSE IF table.state = "missing" THEN [err |-> ErrNoSuchTable, rows |-> << >>]
    ELSE IF table.state = "locked" THEN [err |-> ErrLockWait, rows |-> << >>]
    ELSE [err |-> table.err, rows |-> << >>]

\* query.Count(&count)
Count(table, filter) ==
    LET found == Find(table, filter)
    IN  [err |-> found.err, count |-> Len(found.rows)]

\* the classification of a per-shard error as a shard not yet created
isMissingTableWithoutDoesntExist(err) ==
    LET errMsg == ToLower(err)
    IN  \/ Contains(errMsg, PhraseUnknownTable)
        \/ Contains(errMsg, PhraseTable) /\ Contains(errMsg, PhraseNotFound)

isMissingTable(err) ==
    LET errMsg == ToLower(err)
    IN  \/ Contains(errMsg, PhraseDoesntExist)
        \/ Contains(errMsg, PhraseUnknownTable)
        \/ Contains(errMsg, PhraseTable) /\ Contains(errMsg, PhraseNotFound)

\* reflect.AppendSlice(destElem, tableResultsValue)
AppendSlicePrepending(destElem, tableResults) == tableResults \o destElem

AppendSlice(destElem, tableResults) == destElem \o tableResults

\* the tables CrossTableQueryWithTimeRange visits
QueryTableNames(st, startValue, endValue, now) ==
    IF st.kind # "time" THEN GetAllTableNames(st, st.base)
    ELSE IF startValue.type # "nil" /\ endValue.type # "nil"
    THEN GetAllTableNamesInRangeWithValues(st, st.base, startValue, endValue, now).names
    ELSE GetAllTableNamesInRange(st, st.base, TimeAddDate(now, -1, 0, 0), now)

\* the tables CrossTableCount visits
CountTableNames(st, now) == QueryTableNames(st, NilKey, NilKey, now)

(***************************************************************************)
(* Fan-out calls over a store                                              *)
(***************************************************************************)
MaxShards == 3

\* the strategies queried: Hash over 1..MaxShards tables, and Time by year
QueryConfigs ==
    {Ctor("hash", "users", n, 0) : n \in 1..MaxShards}
        \cup {Ctor("time", "logs", TimeShardingByYear, TimeFieldTypeAuto)}

RowLists == {<< >>, <<2, 1>>, <<3, 4>>}

TableStates ==
    {[state |-> "ok", rows |-> rows] : rows \in RowLists}
        \cup {[state |-> s, rows |-> << >>] : s \in {"missing", "locked"}}

Filters == {"nil", "even"}

\* what the caller's slice may hold before the call
DestsBefore == {<< >>, <<9>>}

Idle == [op |-> "none"]

Running(op, filter, names, before) ==
    [op |-> op, filter |-> filter, names |-> names, at |-> 1,
     total |-> 0, destBefore |-> before]

Pending == [done |-> FALSE, err |-> NoError, total |-> 0]

Returned(err, total) == [done |-> TRUE, err |-> err, total |-> total]

\* the store holds a table state for every table the strategy enumerates
InitQuery ==
    /\ clock = 0
    /\ ctor \in QueryConfigs
    /\ strategy = Build(ctor)
    /\ lastCall = NoCall
    /\ firstCall = NoCall
    /\ NoExtraction
    /\ EntryPointsIdle
    /\ tables \in [SeqRange(CountTableNames(strategy, Now)) -> TableStates]
    /\ dest = << >>
    /\ fanout = Idle
    /\ issued = << >>
    /\ fetched = << >>
    /\ outcome = Pending

NoCallRunning == fanout.op = "none" \/ outcome.done

\* CrossTableQuery up to its loop: the table list and the checks on dest
CrossTableQuery(before, filter) ==
    LET tableNames == QueryTableNames(strategy, NilKey, NilKey, Now)
    IN  /\ NoCallRunning
        /\ fanout' = Running("query", filter, tableNames, before)
        /\ dest' = before
        /\ issued' = << >>
        /\ fetched' = << >>
        /\ outcome' = IF Len(tableNames) = 0
                      THEN Returned(ErrNoTablesFound, 0) ELSE Pending
        /\ UNCHANGED <<nameVars, extractVars, tables, entryVars>>

\* CrossTableCount up to its loop
CrossTableCount(filter) ==
    LET tableNames == CountTableNames(strategy, Now)
    IN  /\ NoCallRunning
        /\ fanout' = Running("count", filter, tableNames, dest)
        /\ issued' = << >>
        /\ fetched' = << >>
        /\ outcome' = IF Len(tableNames) = 0 THEN Returned(NoError, 0) ELSE Pending
        /\ UNCHANGED <<nameVars, extractVars, tables, dest, entryVars>>

\* the position after the table at fanout.at answered without a fatal error
Advance(total) ==
    /\ fanout' = [fanout EXCEPT !.at = @ + 1, !.total = total]
    /\ outcome' = IF fanout.at = Len(fanout.names)
                  THEN Returned(NoError, total) ELSE Pending

Abort(err) ==
    /\ fanout' = fanout
    /\ outcome' = Returned(err, 0)

Issue(tableName) ==
    issued' = Append(issued, [table |-> tableName, filter |-> fanout.filter])

\* one turn of the loop of CrossTableQuery
QueryShard ==
    /\ fanout.op = "query" /\ ~outcome.done
    /\ LET tableName == fanout.names[fanout.at]
           found     == Find(tables[tableName], fanout.filter)
       IN  /\ Issue(tableName)
           /\ IF found.err # NoError
              THEN /\ IF isMissingTable(found.err) THEN Advance(0) ELSE Abort(found.err)
                   /\ UNCHANGED <<dest, fetched>>
              ELSE /\ dest' = AppendSlice(dest, found.rows)
                   /\ fetched' = Append(fetched, found.rows)
                   /\ Advance(0)
    /\ UNCHANGED <<nameVars, extractVars, tables, entryVars>>

\* one turn of the loop of CrossTableCount
CountShard ==
    /\ fanout.op = "count" /\ ~outcome.done
    /\ LET tableName == fanout.names[fanout.at]
           counted   == Count(tables[tableName], fanout.filter)
       IN  /\ Issue(tableName)
           /\ IF counted.err # NoError
              THEN /\ IF isMissingTable(counted.err)
                      THEN Advance(fanout.total) ELSE Abort(counted.err)
                   /\ UNCHANGED fetched
              ELSE /\ fetched' = Append(fetched, <<counted.count>>)
                   /\ Advance(fanout.total + counted.count)
    /\ UNCHANGED <<nameVars, extractVars, tables, dest, entryVars>>

NextQuery ==
    \/ \E before \in DestsBefore, filter \in Filters : CrossTableQuery(before, filter)
    \/ \E filter \in Filters : CrossTableCount(filter)
    \/ QueryShard
    \/ CountShard

SpecQuery == InitQuery /\ [][NextQuery]_vars

\* what the tables of a list answer for a filter, concatenated in list order,
\* a table that gives an error contributing nothing
RECURSIVE MergedRows(_, _, _)
MergedRows(store, names, filter) ==
    IF names = << >> THEN << >>
    ELSE Find(store[Head(names)], filter).rows
             \o MergedRows(store, Tail(names), filter)

CompletedWithoutError == outcome.done /\ outcome.err = NoError

\* C9: CrossTableQuery sends the same filter to each enumerated shard table
\* exactly once, one at a time in enumeration order, and delivers the
\* concatenation of the per-shard results in that order, each shard's row
\* order kept, appended to what the destination held
C9_SequentialOrderedConcatenation ==
    fanout.op = "query" =>
        LET enumerated == QueryTableNames(strategy, NilKey, NilKey, Now)
        IN  /\ Len(issued) <= Len(enumerated)
            /\ \A k \in 1..Len(issued) :
                   issued[k] = [table |-> enumerated[k], filter |-> fanout.filter]
            /\ ~outcome.done => Len(issued) = fanout.at - 1
            /\ CompletedWithoutError =>
                   /\ Len(issued) = Len(enumerated)
                   /\ dest = fanout.destBefore
                                 \o MergedRows(tables, enumerated, fanout.filter)

\* a query over at least two shards that answered different non-empty results
C9_Witness ==
    /\ fanout.op = "query"
    /\ CompletedWithoutError
    /\ fanout.filter = "even"
    /\ Len(fetched) >= 2
    /\ fetched[1] # << >> /\ fetched[2] # << >> /\ fetched[1] # fetched[2]

\* the store with every shard that was not created existing and empty
Created(store) ==
    [n \in DOMAIN store |->
        IF store[n].state = "missing" THEN [state |-> "ok", rows |-> << >>]
        ELSE store[n]]

MissingShards == {k \in 1..Len(fanout.names) : tables[fanout.names[k]].state = "missing"}

NoShardLocked == \A k \in 1..Len(fanout.names) : tables[fanout.names[k]].state # "locked"

\* C10: in CrossTableQuery and CrossTableCount a shard whose table does not
\* exist is skipped: the call returns no error and the merged result, or the
\* summed count, is what it would be with those shards existing and empty
C10_MissingShardsSkipped ==
    (fanout.op # "none" /\ outcome.done /\ MissingShards # {} /\ NoShardLocked) =>
        LET asIfEmpty == MergedRows(Created(tables), fanout.names, fanout.filter)
        IN  /\ outcome.err = NoError
            /\ fanout.op = "query" => dest = fanout.destBefore \o asIfEmpty
            /\ fanout.op = "count" => outcome.total = Len(asIfEmpty)

\* a count that passed a missing shard and then counted rows in a later one
C10_Witness ==
    /\ fanout.op = "count"
    /\ outcome.done
    /\ NoShardLocked
    /\ outcome.total > 0
    /\ \E i \in MissingShards : \E j \in (i + 1)..Len(fanout.names) :
           /\ tables[fanout.names[j]].state = "ok"
           /\ Selected(tables[fanout.names[j]].rows, fanout.filter) # << >>

\* the fan-out call returned the error of a shard
AbortedByShard ==
    /\ fanout.op \in {"query", "count"}
    /\ outcome.done
    /\ outcome.err \notin {NoError, ErrNoTablesFound}

\* C11: a fan-out fails atomically: when shard i gives an error that is not a
\* missing-shard error, the call returns that error, sends no query to a later
\* shard, and the destination holds none of the rows of the shards before i
C11_FanOutFailsAtomically ==
    AbortedByShard =>
        /\ outcome.err = Find(tables[fanout.names[fanout.at]], fanout.filter).err
        /\ Len(issued) = fanout.at
        /\ fanout.op = "query" => dest = fanout.destBefore

(***************************************************************************)
(* Pagination over a fan-out: CrossTablePaginate counts over all shards,   *)
(* queries all shards into the caller's slice, and slices the page out of  *)
(* that slice.                                                             *)
(***************************************************************************)
DefaultPage == 1
DefaultPageSize == 10

\* the loop of CrossTableCount from table i on, with the running total
RECURSIVE CountFrom(_, _, _, _, _)
CountFrom(store, names, filter, i, total) ==
    IF i > Len(names) THEN [err |-> NoError, total |-> total]
    ELSE LET counted == Count(store[names[i]], filter)
         IN  IF counted.err = NoError
             THEN CountFrom(store, names, filter, i + 1, total + counted.count)
             ELSE IF isMissingTable(counted.err)
             THEN CountFrom(store, names, filter, i + 1, total)
             ELSE [err |-> counted.err, total |-> 0]

\* the loop of CrossTableQuery from table i on, with the slice so far
RECURSIVE QueryFrom(_, _, _, _, _)
QueryFrom(store, names, filter, i, slice) ==
    IF i > Len(names) THEN [err |-> NoError, dest |-> slice]
    ELSE LET found == Find(store[names[i]], filter)
         IN  IF found.err = NoError
             THEN QueryFrom(store, names, filter, i + 1, AppendSlice(slice, found.rows))
             ELSE IF isMissingTable(found.err)
             THEN QueryFrom(store, names, filter, i + 1, slice)
             ELSE [err |-> found.err, dest |-> slice]

\* CrossTableCount as one call
CountAll(store, st, filter, now) ==
    CountFrom(store, CountTableNames(st, now), filter, 1, 0)

\* CrossTableQuery as one call
QueryAll(store, st, filter, slice, now) ==
    LET tableNames == QueryTableNames(st, NilKey, NilKey, now)
    IN  IF Len(tableNames) = 0 THEN [err |-> ErrNoTablesFound, dest |-> slice]
        ELSE QueryFrom(store, tableNames, filter, 1, slice)

EffectivePage(page) == IF page < 1 THEN DefaultPage ELSE page

EffectivePageSize(pageSize) == IF pageSize < 1 THEN DefaultPageSize ELSE pageSize

\* totalPages := int(total) / pageSize, one more when there is a remainder
TotalPagesOf(total, pageSize) ==
    (total \div pageSize) + (IF total % pageSize > 0 THEN 1 ELSE 0)

\* paginateSlice: what the slice holds after the call
paginateSlice(slice, page, pageSize) ==
    LET length == Len(slice)
        offset == (page - 1) * pageSize
        end    == IF offset + pageSize > length THEN length ELSE offset + pageSize
    IN  IF offset >= length THEN << >> ELSE SubSeq(slice, offset + 1, end)

NoPaginator(err, slice) ==
    [ok |-> FALSE, err |-> err, page |-> 0, pageSize |-> 0, total |-> 0,
     totalPages |-> 0, data |-> << >>, dest |-> slice]

\* the rest of CrossTablePaginate once the count and the query have answered
PaginatorOf(page, pageSize, counted, queried) ==
    IF counted.err # NoError THEN NoPaginator(counted.err, queried.before)
    ELSE IF queried.err # NoError THEN NoPaginator(queried.err, queried.dest)
    ELSE LET data == paginateSlice(queried.dest, page, pageSize)
         IN  [ok |-> TRUE, err |-> NoError, page |-> page, pageSize |-> pageSize,
              total |-> counted.total,
              totalPages |-> TotalPagesOf(counted.total, pageSize),
              data |-> data, dest |-> data]

\* CrossTablePaginate: the Paginator returned and what the slice holds after
CrossTablePaginate(store, st, slice, page, pageSize, filter, now) ==
    PaginatorOf(EffectivePage(page), EffectivePageSize(pageSize),
                CountAll(store, st, filter, now),
                [before |-> slice] @@ QueryAll(store, st, filter, slice, now))

MaxPage == 3
MaxPageSize == 3
MaxHeld == 1

\* the strategies paged over: Hash over one or two tables
PageConfigs == {Ctor("hash", "users", n, 0) : n \in 1..2}

\* page numbers and sizes, with the values below 1 that fall back to defaults
Pages == 0..MaxPage
PageSizes == {0} \cup 2..MaxPageSize

NoSweep == [op |-> "none"]

\* the lengths of the pages 1, 2, ... asked for one after the other with the
\* same filter and page size
SweepAfter(page, pageSize, filter, p) ==
    IF ~p.ok THEN NoSweep
    ELSE IF page = 1
    THEN [op |-> "sweep", filter |-> filter, pageSize |-> pageSize,
          lens |-> <<Len(p.data)>>]
    ELSE IF /\ sweep.op = "sweep"
            /\ sweep.filter = filter
            /\ sweep.pageSize = pageSize
            /\ page = Len(sweep.lens) + 1
    THEN [sweep EXCEPT !.lens = Append(@, Len(p.data))]
    ELSE NoSweep

InitPaginate ==
    /\ clock = 0
    /\ ctor \in PageConfigs
    /\ strategy = Build(ctor)
    /\ lastCall = NoCall
    /\ firstCall = NoCall
    /\ NoExtraction
    /\ tables \in [SeqRange(CountTableNames(strategy, Now)) -> TableStates]
    /\ dest \in DestsBefore
    /\ fanout = Idle
    /\ issued = << >>
    /\ fetched = << >>
    /\ outcome = Pending
    /\ NoPaging /\ NoDedup /\ NoJoin /\ NoWrite

\* a caller pages with the slice it holds, of at most MaxHeld rows
CallCrossTablePaginate(page, pageSize, filter) ==
    \E p \in {CrossTablePaginate(tables, strategy, dest, page, pageSize, filter, Now)} :
        /\ Len(dest) <= MaxHeld
        /\ paginator' = [op |-> "CrossTablePaginate", filter |-> filter,
                         destBefore |-> dest, asked |-> page,
                         askedSize |-> pageSize] @@ p
        /\ dest' = p.dest
        /\ sweep' = SweepAfter(page, pageSize, filter, p)
        /\ UNCHANGED <<nameVars, extractVars, tables, fanout, issued, fetched,
                       outcome, dedupVars, joinVars, writeVars>>

\* a caller takes a new empty slice
NewSlice ==
    /\ dest # << >>
    /\ dest' = << >>
    /\ UNCHANGED <<nameVars, extractVars, tables, fanout, issued, fetched,
                   outcome, entryVars>>

NextPaginate ==
    \/ \E page \in Pages, pageSize \in PageSizes, filter \in Filters :
           CallCrossTablePaginate(page, pageSize, filter)
    \/ NewSlice

SpecPaginate == InitPaginate /\ [][NextPaginate]_vars

RECURSIVE SumSeq(_)
SumSeq(s) == IF s = << >> THEN 0 ELSE Head(s) + SumSeq(Tail(s))

Paged == paginator.op # "none" /\ paginator.ok

\* C12: over an unchanged store with a fixed filter and page size, TotalPages
\* is ceil(Total / pageSize), the lengths of the pages 1..TotalPages sum to
\* Total, and every page beyond TotalPages is empty
C12_PaginationInvariant ==
    Paged =>
        /\ paginator.totalPages * paginator.pageSize >= paginator.total
        /\ (paginator.totalPages - 1) * paginator.pageSize < paginator.total
               \/ paginator.totalPages = 0
        /\ paginator.page > paginator.totalPages => paginator.data = << >>
        /\ (sweep.op = "sweep" /\ Len(sweep.lens) = paginator.totalPages) =>
               SumSeq(sweep.lens) = paginator.total

\* C13: the data of page p (page < 1 as 1, pageSize < 1 as 10) is the elements
\* at [offset, offset + pageSize), offset = (p - 1) * pageSize, of the merged
\* rows matching the filter, whatever the slice held before the call; an offset
\* at or beyond the end gives an empty page and no error
C13_PageIsSliceOfMergedRows ==
    (paginator.op # "none" /\ \A n \in DOMAIN tables : tables[n].state # "locked") =>
        LET merged   == MergedRows(tables, CountTableNames(strategy, Now), paginator.filter)
            page     == IF paginator.asked < 1 THEN 1 ELSE paginator.asked
            pageSize == IF paginator.askedSize < 1 THEN 10 ELSE paginator.askedSize
            offset   == (page - 1) * pageSize
        IN  /\ paginator.ok
            /\ paginator.data =
                   [k \in 1..(IF offset >= Len(merged) THEN 0
                              ELSE IF offset + pageSize > Len(merged)
                              THEN Len(merged) - offset ELSE pageSize) |->
                       merged[offset + k]]

(***************************************************************************)
(* Deduplication of joined rows (generateResultKey, deduplicateResults)    *)
(***************************************************************************)

\* column names of result rows
\* "id"
ColID == <<105, 100>>
\* "user_id"
ColUserID == <<117, 115, 101, 114, 95, 105, 100>>
\* "order_id"
ColOrderID == <<111, 114, 100, 101, 114, 95, 105, 100>>
\* "payment_id"
ColPaymentID == <<112, 97, 121, 109, 101, 110, 116, 95, 105, 100>>
\* "log_id"
ColLogID == <<108, 111, 103, 95, 105, 100>>
\* "product_id"
ColProductID == <<112, 114, 111, 100, 117, 99, 116, 95, 105, 100>>
\* "name"
ColName == <<110, 97, 109, 101>>
\* "city"
ColCity == <<99, 105, 116, 121>>

\* "<nil>", what %v prints for a nil value
NilText == <<60, 110, 105, 108, 62>>

GetDefaultDeduplicateFields ==
    << <<ColID>>,
       <<ColUserID, ColOrderID, ColPaymentID>>,
       <<ColUserID, ColOrderID>>,
       <<ColOrderID, ColPaymentID>>,
       <<ColUserID>>,
       <<ColOrderID>>,
       <<ColPaymentID>>,
       <<ColLogID>>,
       <<ColProductID>> >>

\* fmt.Sprintf("%v", val) for the values a row holds
SprintV(val) ==
    IF val.type = "nil" THEN NilText
    ELSE IF val.type = "string" THEN val.s
    ELSE FormatInt(val.w)

\* val != nil and its text is neither "" nor "<nil>"
Usable(val) ==
    /\ val.type # "nil"
    /\ SprintV(val) # << >>
    /\ SprintV(val) # NilText

\* fmt.Sprintf("%s:%v", field, val)
KeyPart(field, val) == field \o <<58>> \o SprintV(val)

\* strings.Join(parts, "|")
RECURSIVE JoinParts(_)
JoinParts(parts) ==
    IF parts = << >> THEN << >>
    ELSE IF Len(parts) = 1 THEN parts[1]
    ELSE parts[1] \o <<124>> \o JoinParts(Tail(parts))

\* the inner loop over one group: every field present and usable
GroupFound(result, fields) ==
    \A i \in 1..Len(fields) :
        fields[i] \in DOMAIN result /\ Usable(result[fields[i]])

GroupKey(result, fields) ==
    JoinParts([i \in 1..Len(fields) |-> KeyPart(fields[i], result[fields[i]])])

\* the fallback loop over the row, in the order the map is ranged over
RECURSIVE FallbackParts(_, _, _)
FallbackParts(result, order, i) ==
    IF i > Len(order) THEN << >>
    ELSE IF Usable(result[order[i]])
    THEN <<KeyPart(order[i], result[order[i]])>> \o FallbackParts(result, order, i + 1)
    ELSE FallbackParts(result, order, i + 1)

\* generateResultKey; order is the iteration order of the row's map
generateResultKey(result, keyFieldGroups, order) ==
    LET hits == {g \in 1..Len(keyFieldGroups) :
                     /\ Len(keyFieldGroups[g]) > 0
                     /\ GroupFound(result, keyFieldGroups[g])}
    IN  IF hits # {}
        THEN GroupKey(result, keyFieldGroups[CHOOSE g \in hits : \A h \in hits : g <= h])
        ELSE JoinParts(FallbackParts(result, order, 1))

\* the loop of deduplicateResults from row i on
RECURSIVE DeduplicateFrom(_, _, _, _, _, _)
DeduplicateFrom(results, keyFieldGroups, orders, i, seenKeys, kept) ==
    IF i > Len(results) THEN kept
    ELSE LET key == generateResultKey(results[i], keyFieldGroups, orders[i])
         IN  IF key \in seenKeys
             THEN DeduplicateFrom(results, keyFieldGroups, orders, i + 1, seenKeys, kept)
             ELSE DeduplicateFrom(results, keyFieldGroups, orders, i + 1,
                                  seenKeys \cup {key}, Append(kept, results[i]))

\* deduplicateResults; orders[i] is the iteration order of row i's map
deduplicateResults(results, keyFieldGroups, orders) ==
    IF Len(results) = 0 THEN results
    ELSE DeduplicateFrom(results, keyFieldGroups, orders, 1, {}, << >>)

\* the orders in which a map with these keys can be ranged over
MapOrders(keys) ==
    {p \in [1..Cardinality(keys) -> keys] : \A k \in keys : \E i \in DOMAIN p : p[i] = k}

\* one iteration order for each row of a list
RECURSIVE RowOrders(_)
RowOrders(results) ==
    IF results = << >> THEN {<< >>}
    ELSE {<<first>> \o rest : first \in MapOrders(DOMAIN Head(results)),
                              rest \in RowOrders(Tail(results))}

MaxResults == 3

One == IntKey("int", W64FromNat(1))
Two == IntKey("int", W64FromNat(2))
Empty == StrKey(<< >>)

\* rows handed to deduplicateResults
ResultRows ==
    { (ColID :> One) @@ (ColName :> One),
      (ColID :> One) @@ (ColName :> Two),
      (ColID :> NilKey) @@ (ColName :> One),
      (ColID :> Empty) @@ (ColName :> One),
      (ColID :> Empty) @@ (ColName :> Two),
      (ColName :> One) @@ (ColCity :> One),
      (ColName :> One),
      (ColName :> NilKey) }

ResultLists == UNION {[1..n -> ResultRows] : n \in 0..MaxResults}

GroupLists == {GetDefaultDeduplicateFields, << <<ColName>> >>, << >>}

InitDedup ==
    /\ clock = 0
    /\ ctor = Ctor("hash", "users", 1, 0)
    /\ strategy = Build(ctor)
    /\ lastCall = NoCall
    /\ firstCall = NoCall
    /\ NoExtraction
    /\ NoFanOut
    /\ EntryPointsIdle

\* deduplicateResults on a fresh list
CallDeduplicateResults(results, keyFieldGroups) ==
    /\ dedupCall.op = "none"
    /\ \E orders \in RowOrders(results) :
           deduplicated' = deduplicateResults(results, keyFieldGroups, orders)
    /\ dedupCall' = [op |-> "deduplicateResults", results |-> results,
                     keyFieldGroups |-> keyFieldGroups, again |-> FALSE]
    /\ UNCHANGED <<nameVars, extractVars, queryVars, pageVars, joinVars, writeVars>>

\* deduplicateResults on the list the previous call returned
DeduplicateAgain ==
    /\ dedupCall.op = "deduplicateResults"
    /\ ~dedupCall.again
    /\ \E orders \in RowOrders(deduplicated) :
           deduplicated' = deduplicateResults(deduplicated, dedupCall.keyFieldGroups, orders)
    /\ dedupCall' = [dedupCall EXCEPT !.results = deduplicated, !.again = TRUE]
    /\ UNCHANGED <<nameVars, extractVars, queryVars, pageVars, joinVars, writeVars>>

NextDedup ==
    \/ \E results \in ResultLists, keyFieldGroups \in GroupLists :
           CallDeduplicateResults(results, keyFieldGroups)
    \/ DeduplicateAgain

SpecDedup == InitDedup /\ [][NextDedup]_vars


\* the name:value pairs of the first group whose every field is present and
\* non-null on the row, else of all non-null fields of the row
UniquenessKey(result, keyFieldGroups) ==
    LET nonNull(f) == f \in DOMAIN result /\ result[f].type # "nil"
        hits == {g \in 1..Len(keyFieldGroups) :
                     /\ Len(keyFieldGroups[g]) > 0
                     /\ \A i \in 1..Len(keyFieldGroups[g]) : nonNull(keyFieldGroups[g][i])}
        first == CHOOSE g \in hits : \A h \in hits : g <= h
    IN  IF hits # {}
        THEN {<<keyFieldGroups[first][i], result[keyFieldGroups[first][i]]>> :
                  i \in 1..Len(keyFieldGroups[first])}
        ELSE {<<f, result[f]>> : f \in {c \in DOMAIN result : nonNull(c)}}

\* the rows of a list that are the first to carry their key, in list order
RECURSIVE FirstOfEachKey(_, _, _)
FirstOfEachKey(results, keyFieldGroups, i) ==
    IF i > Len(results) THEN << >>
    ELSE IF \E j \in 1..(i - 1) :
                UniquenessKey(results[j], keyFieldGroups)
                    = UniquenessKey(results[i], keyFieldGroups)
    THEN FirstOfEachKey(results, keyFieldGroups, i + 1)
    ELSE <<results[i]>> \o FirstOfEachKey(results, keyFieldGroups, i + 1)

\* C15: deduplicateResults keys each row by the first group whose every field
\* is present and non-null, else by all its non-null fields, and returns the
\* rows that are the first to carry their key, in their original order
C15_FirstRowOfEachKeyKept ==
    dedupCall.op # "none" =>
        deduplicated = FirstOfEachKey(dedupCall.results, dedupCall.keyFieldGroups, 1)

\* C16: deduplicating the output of deduplicateResults again, with the same
\* field groups, returns that output unchanged
C16_DeduplicationIdempotent ==
    (dedupCall.op # "none" /\ dedupCall.again) => deduplicated = dedupCall.results

\* C28: deduplication is a function of the record list and the field groups:
\* of two identical records the later one is dropped, also when no group
\* matches and the key is built from all non-null fields, and every run on the
\* same input returns the same output
C28_DeduplicationDeterministic ==
    dedupCall.op # "none" =>
        /\ \A i, j \in 1..Len(deduplicated) : deduplicated[i] = deduplicated[j] => i = j
        /\ \A orders \in RowOrders(dedupCall.results) :
               deduplicateResults(dedupCall.results, dedupCall.keyFieldGroups, orders)
                   = deduplicated

(***************************************************************************)
(* Multi-way joins over shard tuples (CrossTableMultiJoin and its count)   *)
(* users is the main table and orders the joined one, both sharded on      *)
(* user_id; a query selects users.user_id and orders.order_id              *)
(***************************************************************************)
InnerJoin == "INNER"
LeftJoin == "LEFT"
RightJoin == "RIGHT"

\* the query builder's WHERE clause on a joined row
JoinSelected(rows, filter) ==
    IF filter = "even"
    THEN SelectSeq(rows, LAMBDA r : r[ColUserID].type # "nil" /\ r[ColUserID].w[1] % 2 = 0)
    ELSE rows

\* a row of the result: the selected columns, NULL as nil
JoinedRow(userID, orderID) == (ColUserID :> userID) @@ (ColOrderID :> orderID)

IntValue(n) == IntKey("int64", W64FromNat(n))

\* the rows a user contributes to "users JOIN orders ON users.user_id = orders.user_id"
RECURSIVE MatchesOf(_, _, _)
MatchesOf(userID, orders, i) ==
    IF i > Len(orders) THEN << >>
    ELSE IF orders[i].user_id = userID
    THEN <<JoinedRow(IntValue(userID), IntValue(orders[i].order_id))>>
             \o MatchesOf(userID, orders, i + 1)
    ELSE MatchesOf(userID, orders, i + 1)

\* the rows of the main side: each user's matches, and for LEFT the user alone
\* when it has none
RECURSIVE MainSide(_, _, _, _)
MainSide(joinType, users, orders, i) ==
    IF i > Len(users) THEN << >>
    ELSE LET matches == MatchesOf(users[i].user_id, orders, 1)
         IN  (IF matches = << >> /\ joinType = LeftJoin
              THEN <<JoinedRow(IntValue(users[i].user_id), NilKey)>>
              ELSE matches) \o MainSide(joinType, users, orders, i + 1)

\* for RIGHT the orders that no user of the main side matches
RECURSIVE Unmatched(_, _, _)
Unmatched(users, orders, i) ==
    IF i > Len(orders) THEN << >>
    ELSE IF \E k \in 1..Len(users) : users[k].user_id = orders[i].user_id
    THEN Unmatched(users, orders, i + 1)
    ELSE <<JoinedRow(NilKey, IntValue(orders[i].order_id))>> \o Unmatched(users, orders, i + 1)

\* what the store answers for the join of one users table with one orders table
JoinRows(joinType, users, orders) ==
    MainSide(joinType, users, orders, 1)
        \o (IF joinType = RightJoin THEN Unmatched(users, orders, 1) ELSE << >>)

\* query.Find(&results) on the statement joining the tables of one tuple
FindJoined(store, combination, joinType, filter) ==
    IF \E i \in 1..Len(combination) : store[combination[i]].state # "ok"
    THEN Find(store[combination[CHOOSE i \in 1..Len(combination) :
                                   /\ store[combination[i]].state # "ok"
                                   /\ \A j \in 1..(i - 1) : store[combination[j]].state = "ok"]],
              filter)
    ELSE [err |-> NoError,
          rows |-> JoinSelected(JoinRows(joinType, store[combination[1]].rows,
                                         store[combination[2]].rows), filter)]

\* "unknown column"
PhraseUnknownColumn ==
    <<117, 110, 107, 110, 111, 119, 110, 32, 99, 111, 108, 117, 109, 110>>

\* the skip test of the multi-join loops
isMissingTuple(err) ==
    LET errMsg == ToLower(err)
    IN  \/ Contains(errMsg, PhraseDoesntExist)
        \/ Contains(errMsg, PhraseUnknownTable)
        \/ Contains(errMsg, PhraseTable) /\ Contains(errMsg, PhraseNotFound)
        \/ Contains(errMsg, PhraseUnknownColumn)

\* generateCombinationsRecursive: at joinIndex 0 every main table starts a tuple;
\* past the last join list the tuple is complete; otherwise every table of the
\* join list at joinIndex extends the tuple
RECURSIVE generateCombinationsRecursive(_, _, _, _)
RECURSIVE CombinationsOver(_, _, _, _, _)
\* for _, table := range names { result = append(result, subResults...) } from the k-th name on
CombinationsOver(names, k, mainTableNames, joinTableNamesList, stem) ==
    IF k > Len(names) THEN << >>
    ELSE generateCombinationsRecursive(mainTableNames, joinTableNamesList,
                                       stem.joinIndex + 1, Append(stem.current, names[k]))
             \o CombinationsOver(names, k + 1, mainTableNames, joinTableNamesList, stem)

generateCombinationsRecursive(mainTableNames, joinTableNamesList, joinIndex, current) ==
    IF joinIndex = 0
    THEN CombinationsOver(mainTableNames, 1, mainTableNames, joinTableNamesList,
                          [joinIndex |-> 0, current |-> << >>])
    ELSE IF joinIndex > Len(joinTableNamesList) THEN <<current>>
    ELSE CombinationsOver(joinTableNamesList[joinIndex], 1, mainTableNames, joinTableNamesList,
                          [joinIndex |-> joinIndex, current |-> current])

\* a slip in the nesting: the tuples in reverse order
generateTableCombinationsReversed(mainTableNames, joinTableNamesList) ==
    LET combinations == generateCombinationsRecursive(mainTableNames, joinTableNamesList,
                                                      0, << >>)
    IN  [k \in 1..Len(combinations) |-> combinations[Len(combinations) + 1 - k]]

\* generateTableCombinations: one 1-tuple per main table without join lists,
\* else the recursion from joinIndex 0
generateTableCombinations(mainTableNames, joinTableNamesList) ==
    IF Len(joinTableNamesList) = 0
    THEN [i \in 1..Len(mainTableNames) |-> <<mainTableNames[i]>>]
    ELSE generateCombinationsRecursive(mainTableNames, joinTableNamesList, 0, << >>)

\* the tuple loop shared by CrossTableMultiJoin and CrossTableMultiJoinCount
RECURSIVE JoinFrom(_, _, _, _, _, _)
JoinFrom(store, combinations, joinType, filter, i, allResults) ==
    IF i > Len(combinations) THEN [err |-> NoError, rows |-> allResults]
    ELSE LET found == FindJoined(store, combinations[i], joinType, filter)
         IN  IF found.err = NoError
             THEN JoinFrom(store, combinations, joinType, filter, i + 1,
                           allResults \o found.rows)
             ELSE IF isMissingTuple(found.err)
             THEN JoinFrom(store, combinations, joinType, filter, i + 1, allResults)
             ELSE [err |-> found.err, rows |-> << >>]

\* config.DeduplicateFields, or the default groups when none are configured
DeduplicateFieldsOf(config) ==
    IF Len(config.DeduplicateFields) = 0 THEN GetDefaultDeduplicateFields
    ELSE config.DeduplicateFields

\* the rows of every tuple, before deduplication
AllTupleRows(store, config, filter) ==
    JoinFrom(store,
             generateTableCombinations(
                 GetAllTableNames(config.MainTable, config.MainTable.base),
                 <<GetAllTableNames(config.JoinTable, config.JoinTable.base)>>),
             config.JoinType, filter, 1, << >>)

\* mapToStruct: NumField panics unless the element is a struct, and
\* reflect.ValueOf(value).Type() panics on a nil value of a mapped field
mapToStructPanics(m, elemKind) ==
    \/ elemKind # "struct"
    \/ \E c \in DOMAIN m : m[c].type = "nil"

\* convertResults: what the destination holds after, or a panic
convertResults(results, destBefore, elemKind) ==
    IF Len(results) = 0 THEN [panic |-> FALSE, dest |-> destBefore]
    ELSE IF \E i \in 1..Len(results) : mapToStructPanics(results[i], elemKind)
    THEN [panic |-> TRUE,
          dest |-> destBefore \o SubSeq(results, 1,
                       (CHOOSE i \in 1..Len(results) :
                            /\ mapToStructPanics(results[i], elemKind)
                            /\ \A j \in 1..(i - 1) : ~mapToStructPanics(results[j], elemKind)) - 1)]
    ELSE [panic |-> FALSE, dest |-> destBefore \o results]

\* CrossTableMultiJoin once the tuple loop has answered, with the map orders
\* the deduplication ranges in
CrossTableMultiJoin(found, config, orders, destBefore, elemKind) ==
    IF found.err # NoError
    THEN [err |-> found.err, panic |-> FALSE, rows |-> << >>, dest |-> destBefore]
    ELSE LET allResults == deduplicateResults(found.rows, DeduplicateFieldsOf(config), orders)
         IN  [err |-> NoError, rows |-> allResults]
                 @@ convertResults(allResults, destBefore, elemKind)

\* CrossTableMultiJoinCount once the tuple loop has answered
CrossTableMultiJoinCount(found, config, orders) ==
    IF found.err # NoError THEN [err |-> found.err, total |-> 0]
    ELSE [err |-> NoError,
          total |-> Len(deduplicateResults(found.rows, DeduplicateFieldsOf(config), orders))]


MaxJoinShards == 2
MaxUserID == 2

\* the logical users table: any of the users 1..MaxUserID
UserLists ==
    {SelectSeq([i \in 1..MaxUserID |-> [user_id |-> i]], LAMBDA u : u.user_id \in present) :
         present \in SUBSET (1..MaxUserID)}

\* the logical orders table: any of two orders of user 1 and one of the last user
OrderPool ==
    <<[order_id |-> 1, user_id |-> 1], [order_id |-> 2, user_id |-> 1],
      [order_id |-> 3, user_id |-> MaxUserID]>>

OrderLists ==
    {SelectSeq(OrderPool, LAMBDA o : o.order_id \in present) :
         present \in SUBSET {OrderPool[i].order_id : i \in 1..Len(OrderPool)}}

\* which tables have been created: every shard, only the shards holding rows,
\* or every shard and the unsuffixed base tables as well
Creations == {"all", "populated", "all and base"}

\* the rows of a logical table that its strategy routes to one physical table
ShardRows(st, rows, name) ==
    SelectSeq(rows, LAMBDA r : HashGetTableName(st, st.base, IntValue(r.user_id)) = name)

ShardOf(st, rows, name, created) ==
    LET held == ShardRows(st, rows, name)
    IN  [state |-> IF held = << >> /\ created = "populated" THEN "missing" ELSE "ok",
         rows |-> held]

BaseTable(created) ==
    [state |-> IF created = "all and base" THEN "ok" ELSE "missing", rows |-> << >>]

\* the physical tables of one logical table, and its base table
ShardsOf(st, rows, created) ==
    [name \in SeqRange(GetAllTableNames(st, st.base)) |-> ShardOf(st, rows, name, created)]
        @@ (TableName(st.base, << >>) :> BaseTable(created))

JoinStore(config, users, orders, created) ==
    ShardsOf(config.MainTable, users, created) @@ ShardsOf(config.JoinTable, orders, created)

JoinTypes == {InnerJoin, LeftJoin, RightJoin}

\* config.DeduplicateFields: none (the default groups apply) or {"user_id"}
ConfiguredGroups == {<< >>, << <<ColUserID>> >>}

MultiJoinConfigs ==
    {[MainTable |-> NewHashShardingStrategy("users", n),
      JoinTable |-> NewHashShardingStrategy("orders", n),
      JoinType |-> joinType, DeduplicateFields |-> groups] :
         n \in 1..MaxJoinShards, joinType \in JoinTypes, groups \in ConfiguredGroups}

NotCalled == [done |-> FALSE]

InitJoin ==
    /\ clock = 0
    /\ ctor = Ctor("hash", "users", 1, 0)
    /\ strategy = Build(ctor)
    /\ lastCall = NoCall
    /\ firstCall = NoCall
    /\ NoExtraction
    /\ NoFanOut
    /\ NoPaging /\ NoDedup /\ NoWrite
    /\ \E config \in MultiJoinConfigs, users \in UserLists, orders \in OrderLists,
          created \in Creations, filter \in Filters :
           /\ joinCall = [op |-> "multi join", config |-> config, filter |-> filter,
                          users |-> users, orders |-> orders]
           /\ shards = JoinStore(config, users, orders, created)
    /\ joined = [op |-> "multi join", count |-> NotCalled, query |-> NotCalled]

\* CrossTableMultiJoinCount(db, config, queryBuilder)
CallCrossTableMultiJoinCount ==
    /\ joinCall.op = "multi join"
    /\ ~joined.count.done
    /\ \E found \in {AllTupleRows(shards, joinCall.config, joinCall.filter)} :
       \E orders \in RowOrders(found.rows) :
           joined' = [joined EXCEPT !.count =
                          [done |-> TRUE]
                              @@ CrossTableMultiJoinCount(found, joinCall.config, orders)]
    /\ UNCHANGED <<nameVars, extractVars, queryVars, pageVars, dedupVars,
                   shards, joinCall, writeVars>>

\* CrossTableMultiJoin(db, config, &dest, queryBuilder) with an empty dest
\* whose elements are structs or maps
CallCrossTableMultiJoin(elemKind) ==
    /\ joinCall.op = "multi join"
    /\ ~joined.query.done
    /\ \E found \in {AllTupleRows(shards, joinCall.config, joinCall.filter)} :
       \E orders \in RowOrders(found.rows) :
           joined' = [joined EXCEPT !.query =
                          [done |-> TRUE, elemKind |-> elemKind]
                              @@ CrossTableMultiJoin(found, joinCall.config, orders,
                                                     << >>, elemKind)]
    /\ UNCHANGED <<nameVars, extractVars, queryVars, pageVars, dedupVars,
                   shards, joinCall, writeVars>>

NextJoin ==
    \/ CallCrossTableMultiJoinCount
    \/ \E elemKind \in {"struct", "map"} : CallCrossTableMultiJoin(elemKind)

SpecJoin == InitJoin /\ [][NextJoin]_vars

Occurrences(rows, r) == Cardinality({i \in 1..Len(rows) : rows[i] = r})

SameRows(a, b) ==
    \A r \in SeqRange(a) \cup SeqRange(b) : Occurrences(a, r) = Occurrences(b, r)

\* C14: the rows CrossTableMultiJoin returns after deduplication are exactly
\* the rows of the same join (inner, left or right) over the logical tables:
\* every logical match once, none dropped, none duplicated, none added
C14_JoinAsIfUnsharded ==
    (joinCall.op = "multi join" /\ joined.query.done /\ joined.query.err = NoError) =>
        SameRows(joined.query.rows,
                 JoinSelected(JoinRows(joinCall.config.JoinType, joinCall.users,
                                       joinCall.orders), joinCall.filter))

\* C17: over an unchanged store CrossTableMultiJoinCount returns the number of
\* rows CrossTableMultiJoin delivers into its destination
C17_CountMatchesDeliveredRows ==
    (/\ joinCall.op = "multi join"
     /\ joined.count.done /\ joined.query.done
     /\ joined.count.err = NoError) =>
        /\ joined.query.err = NoError
        /\ ~joined.query.panic
        /\ Len(joined.query.dest) = joined.count.total

(***************************************************************************)
(* The optimized join paths: one tuple resolved through joinKeys           *)
(***************************************************************************)
\* both tables are constructed with user_id as their sharding key
GetShardingKey(st) == ColUserID

\* getTableNameByKey; order is the order in which the joinKeys map is ranged over
getTableNameByKey(st, baseTableName, joinKeys, order) ==
    LET hits == {i \in 1..Len(order) : joinKeys[order[i]].type # "nil"}
    IN  IF hits # {}
        THEN HashGetTableName(st, baseTableName,
                              joinKeys[order[CHOOSE i \in hits : \A j \in hits : i <= j]])
        ELSE TableName(baseTableName, << >>)

\* the statement of the optimized paths on the tuple the two lookups resolved
OptimizedFind(store, config, tuple, filter) ==
    LET found == FindJoined(store, tuple, config.JoinType, filter)
    IN  [tuple |-> tuple, queried |-> <<tuple>>, err |-> found.err, rows |-> found.rows]

\* CrossTableMultiJoinOptimized: return query.Find(dest).Error
CrossTableMultiJoinOptimized(store, config, joinKeys, mainOrder, joinOrder, filter) ==
    OptimizedFind(store, config,
                  <<getTableNameByKey(config.MainTable, config.MainTable.base, joinKeys, mainOrder),
                    getTableNameByKey(config.JoinTable, config.JoinTable.base, joinKeys, joinOrder)>>,
                  filter)

\* the Paginator of CrossTableMultiJoinPaginateOptimized from the answer of
\* the one statement: Count, then Offset and Limit, then Find
OptimizedPage(found, page, pageSize) ==
    IF found.err # NoError
    THEN found @@ [ok |-> FALSE, page |-> 0, pageSize |-> 0, total |-> 0,
                   totalPages |-> 0, data |-> << >>]
    ELSE found @@ [ok |-> TRUE, page |-> page, pageSize |-> pageSize,
                   total |-> Len(found.rows),
                   totalPages |-> TotalPagesOf(Len(found.rows), pageSize),
                   data |-> paginateSlice(found.rows, page, pageSize)]

CrossTableMultiJoinPaginateOptimized(store, config, joinKeys, mainOrder, joinOrder, page, pageSize, filter) ==
    OptimizedPage(CrossTableMultiJoinOptimized(store, config, joinKeys, mainOrder,
                                               joinOrder, filter),
                  EffectivePage(page), EffectivePageSize(pageSize))

\* joinKeys maps handed to the optimized paths
JoinKeyMaps ==
    { << >>,
      (ColUserID :> IntValue(1)),
      (ColUserID :> NilKey),
      (ColOrderID :> IntValue(2)),
      (ColUserID :> IntValue(1)) @@ (ColOrderID :> IntValue(2)) }

OptimizedConfigs == {c \in MultiJoinConfigs : c.DeduplicateFields = << >>}

InitOptimized ==
    /\ clock = 0
    /\ ctor = Ctor("hash", "users", 1, 0)
    /\ strategy = Build(ctor)
    /\ lastCall = NoCall
    /\ firstCall = NoCall
    /\ NoExtraction
    /\ NoFanOut
    /\ NoPaging /\ NoDedup /\ NoWrite
    /\ \E config \in OptimizedConfigs, users \in UserLists,
          orders \in {<< >>, OrderPool}, created \in Creations :
           /\ joinCall = [op |-> "optimized join", config |-> config, filter |-> "nil",
                          users |-> users, orders |-> orders]
           /\ shards = JoinStore(config, users, orders, created)
    /\ joined = [op |-> "optimized join", last |-> NotCalled, previous |-> NotCalled]

\* CrossTableMultiJoinOptimized(db, config, joinKeys, &dest, queryBuilder)
CallCrossTableMultiJoinOptimized(joinKeys) ==
    /\ joinCall.op = "optimized join"
    /\ ~joined.last.done
    /\ \E mainOrder \in MapOrders(DOMAIN joinKeys), joinOrder \in MapOrders(DOMAIN joinKeys) :
           joined' = [joined EXCEPT !.last =
                          [done |-> TRUE, fn |-> "CrossTableMultiJoinOptimized",
                           joinKeys |-> joinKeys, asked |-> 0, askedSize |-> 0]
                              @@ CrossTableMultiJoinOptimized(shards, joinCall.config,
                                     joinKeys, mainOrder, joinOrder, joinCall.filter)]
    /\ UNCHANGED <<nameVars, extractVars, queryVars, pageVars, dedupVars,
                   shards, joinCall, writeVars>>

\* CrossTableMultiJoinPaginateOptimized(db, config, joinKeys, &dest, page, pageSize, queryBuilder)
CallCrossTableMultiJoinPaginateOptimized(joinKeys, page, pageSize) ==
    /\ joinCall.op = "optimized join"
    /\ ~joined.last.done
    /\ \E mainOrder \in MapOrders(DOMAIN joinKeys), joinOrder \in MapOrders(DOMAIN joinKeys) :
           joined' = [joined EXCEPT !.last =
                          [done |-> TRUE, fn |-> "CrossTableMultiJoinPaginateOptimized",
                           joinKeys |-> joinKeys, asked |-> page, askedSize |-> pageSize]
                              @@ CrossTableMultiJoinPaginateOptimized(shards, joinCall.config,
                                     joinKeys, mainOrder, joinOrder, page, pageSize,
                                     joinCall.filter)]
    /\ UNCHANGED <<nameVars, extractVars, queryVars, pageVars, dedupVars,
                   shards, joinCall, writeVars>>

\* the caller makes the same call once more
RepeatOptimizedCall ==
    /\ joinCall.op = "optimized join"
    /\ joined.last.done
    /\ ~joined.previous.done
    /\ \E mainOrder \in MapOrders(DOMAIN joined.last.joinKeys),
          joinOrder \in MapOrders(DOMAIN joined.last.joinKeys) :
           joined' = [joined EXCEPT
                          !.previous = joined.last,
                          !.last =
                              [done |-> TRUE, fn |-> joined.last.fn,
                               joinKeys |-> joined.last.joinKeys,
                               asked |-> joined.last.asked,
                               askedSize |-> joined.last.askedSize]
                                  @@ (IF joined.last.fn = "CrossTableMultiJoinOptimized"
                                      THEN CrossTableMultiJoinOptimized(shards, joinCall.config,
                                               joined.last.joinKeys, mainOrder, joinOrder,
                                               joinCall.filter)
                                      ELSE CrossTableMultiJoinPaginateOptimized(shards,
                                               joinCall.config, joined.last.joinKeys,
                                               mainOrder, joinOrder, joined.last.asked,
                                               joined.last.askedSize, joinCall.filter))]
    /\ UNCHANGED <<nameVars, extractVars, queryVars, pageVars, dedupVars,
                   shards, joinCall, writeVars>>

NextOptimized ==
    \/ \E joinKeys \in JoinKeyMaps : CallCrossTableMultiJoinOptimized(joinKeys)
    \/ \E joinKeys \in JoinKeyMaps, page \in Pages, pageSize \in PageSizes :
           CallCrossTableMultiJoinPaginateOptimized(joinKeys, page, pageSize)
    \/ RepeatOptimizedCall

SpecOptimized == InitOptimized /\ [][NextOptimized]_vars

OptimizedCalled == joinCall.op = "optimized join" /\ joined.last.done

\* joinKeys holds a non-nil value for the sharding key of the table
KeySupplied(joinKeys, st) ==
    GetShardingKey(st) \in DOMAIN joinKeys /\ joinKeys[GetShardingKey(st)].type # "nil"

\* C18: an optimized path queries exactly one tuple, each table of it named by
\* its own strategy's GetTableName on the joinKeys value of that table's shard
\* key, and the same joinKeys give the same tuple on every call
C18_OptimizedTupleByOwnKey ==
    OptimizedCalled =>
        LET config == joinCall.config
            joinKeys == joined.last.joinKeys
        IN  /\ Len(joined.last.queried) = 1
            /\ KeySupplied(joinKeys, config.MainTable) =>
                   joined.last.tuple[1] =
                       HashGetTableName(config.MainTable, config.MainTable.base,
                                        joinKeys[GetShardingKey(config.MainTable)])
            /\ KeySupplied(joinKeys, config.JoinTable) =>
                   joined.last.tuple[2] =
                       HashGetTableName(config.JoinTable, config.JoinTable.base,
                                        joinKeys[GetShardingKey(config.JoinTable)])
            /\ joined.previous.done => joined.previous.tuple = joined.last.tuple

\* C19: an optimized path returns an error when joinKeys supplies no usable
\* key value for a table, and when a resolved shard does not exist
C19_ResolutionFailureIsError ==
    OptimizedCalled =>
        LET config == joinCall.config
            joinKeys == joined.last.joinKeys
        IN  /\ (~KeySupplied(joinKeys, config.MainTable)
                    \/ ~KeySupplied(joinKeys, config.JoinTable)) =>
                   joined.last.err # NoError
            /\ (\E i \in 1..2 : shards[joined.last.tuple[i]].state = "missing") =>
                   joined.last.err # NoError

(***************************************************************************)
(* Write paths: CreateWithTable, SetTableName and the sharding:create hook *)
(* fieldName holds the strategy's sharding key, extracted what             *)
(* GetShardingValue answered for the record                                *)
(***************************************************************************)
\* strategy.GetShardingValue(value): ExtractValue(value, s.shardingKey)
GetShardingValue(value, shardingKey) == ExtractValue(value, shardingKey)

\* GetTableNameWithValue(strategy, value)
GetTableNameWithValue(st, value, shardingKey, now) ==
    LET shardingValue == GetShardingValue(value, shardingKey)
    IN  IF ~shardingValue.ok THEN TableName(st.base, << >>)
        ELSE GetTableName(st, st.base, IntKey("int", W64FromInt(shardingValue.value)), now).name

\* db.Table(tableName).Create(value): the insert the store receives
Insert(fn, tableName) == [op |-> fn, table |-> tableName, err |-> "none"]

\* ShardingHelper.CreateWithTable for a registered base table
CreateWithTable(st, value, shardingKey, now) ==
    Insert("CreateWithTable", GetTableNameWithValue(st, value, shardingKey, now))

\* SetTableName on a statement, then the Create of that statement
SetTableName(st, value, shardingKey, now) ==
    Insert("SetTableName", GetTableNameWithValue(st, value, shardingKey, now))

\* db.Create(value) with the sharding:create callback registered: the
\* statement keeps the schema's table unless the callback replaces it
CreateHook(st, value, shardingKey, now) ==
    LET shardingValue == GetShardingValue(value, shardingKey)
    IN  Insert("sharding:create",
               IF shardingValue.ok
               THEN GetTableName(st, st.base, IntKey("int", W64FromInt(shardingValue.value)), now).name
               ELSE TableName(st.base, << >>))

\* sharding keys the strategy is constructed with: user_id, title, missing
ShardingKeys ==
    {<<117, 115, 101, 114, 95, 105, 100>>,
     <<116, 105, 116, 108, 101>>,
     <<109, 105, 115, 115, 105, 110, 103>>}

WriteConfigs == {Ctor("hash", "users", n, 0) : n \in 1..MaxJoinShards}

InitWrite ==
    /\ clock = 0
    /\ ctor \in WriteConfigs
    /\ strategy = Build(ctor)
    /\ lastCall = NoCall
    /\ firstCall = NoCall
    /\ model = [kind |-> "nil", fields |-> << >>]
    /\ fieldName \in ShardingKeys
    /\ extracted = [ok |-> FALSE, value |-> 0, err |-> "no call"]
    /\ NoFanOut
    /\ EntryPointsIdle

CallCreateWithTable(value) ==
    /\ inserted.op = "none"
    /\ model' = value
    /\ extracted' = GetShardingValue(value, fieldName)
    /\ inserted' = CreateWithTable(strategy, value, fieldName, Now)
    /\ UNCHANGED <<nameVars, fieldName, queryVars, pageVars, dedupVars, joinVars, strategies>>

CallSetTableName(value) ==
    /\ inserted.op = "none"
    /\ model' = value
    /\ extracted' = GetShardingValue(value, fieldName)
    /\ inserted' = SetTableName(strategy, value, fieldName, Now)
    /\ UNCHANGED <<nameVars, fieldName, queryVars, pageVars, dedupVars, joinVars, strategies>>

CallCreateWithHook(value) ==
    /\ inserted.op = "none"
    /\ model' = value
    /\ extracted' = GetShardingValue(value, fieldName)
    /\ inserted' = CreateHook(strategy, value, fieldName, Now)
    /\ UNCHANGED <<nameVars, fieldName, queryVars, pageVars, dedupVars, joinVars, strategies>>

NextWrite ==
    \/ \E value \in Records : CallCreateWithTable(value)
    \/ \E value \in Records : CallSetTableName(value)
    \/ \E value \in Records : CallCreateWithHook(value)

SpecWrite == InitWrite /\ [][NextWrite]_vars

\* C20: when the shard key cannot be extracted from the record, the write
\* path returns the error and issues no insert, none on the base table either
C20_ExtractionFailureAbortsWrite ==
    (inserted.op # "none" /\ ~extracted.ok) =>
        /\ inserted.err # "none"
        /\ inserted.table = NoName

(***************************************************************************)
(* Properties of Range and Modulo over the integer types                   *)
(***************************************************************************)
IntegerKeyResolved ==
    /\ lastCall.op = "GetTableName"
    /\ lastCall.key.type \in IntTypes

\* clamp(floor(key / bucketSize), 0, bucketCount - 1) of the key's numeric
\* value: a negative key floors below 0, any other key has the quotient of
\* its unsigned word
ClampedBucket(s, v) ==
    IF v.type \in SignedTypes /\ W64IsNeg(v.w) THEN 0
    ELSE LET quotient == W64DivMod(v.w, s.rangeSize).q
         IN  IF W64UCmp(quotient, W64FromNat(s.count)) >= 0 THEN s.count - 1
             ELSE W64ToNat(quotient)

\* C21: a Range strategy maps every integer key of any integer type, negative
\* and above 2^63-1 included, to the table clamp(floor(key / bucketSize), 0,
\* bucketCount - 1)
C21_RangeIndexIsClampedQuotient ==
    (strategy.kind = "range" /\ IntegerKeyResolved) =>
        lastCall.name = IndexedName(strategy.base, ClampedBucket(strategy, lastCall.key))

\* the key's value is the same number when read as an int64
SameNumberAsInt64(v) == v.type \in SignedTypes \/ ~W64IsNeg(v.w)

\* C22: Range and Modulo map an integer key of any width or signedness to the
\* table they map the same number to as an int64; no integer key takes the
\* hash fallback
C22_IntegerTypesAgree ==
    (/\ strategy.kind \in {"range", "modulo"}
     /\ IntegerKeyResolved
     /\ SameNumberAsInt64(lastCall.key)) =>
        lastCall.name =
            GetTableName(strategy, strategy.base, IntKey("int64", lastCall.key.w), Now).name

(***************************************************************************)
(* Termination of the Time strategy's conversions                          *)
(***************************************************************************)
\* the latest call was GetTableName on a Time strategy
TimeKeyResolved ==
    /\ strategy.kind = "time"
    /\ lastCall.op = "GetTableName"

\* C23: GetTableName of a Time strategy returns a table name for every key
\* under every configured field encoding, a time instant or an integer given
\* to a date-string or datetime-string strategy included
C23_TimeConversionReturns ==
    TimeKeyResolved => lastCall.ok

(***************************************************************************)
(* The statements of the multi-way join: one per tuple of shard tables     *)
(***************************************************************************)
TextUsers    == <<117, 115, 101, 114, 115>>
TextOrders   == <<111, 114, 100, 101, 114, 115>>
TextPayments == <<112, 97, 121, 109, 101, 110, 116, 115>>
\* "users.id = orders.user_id"
OnUsersOrders ==
    <<117, 115, 101, 114, 115, 46, 105, 100, 32, 61, 32, 111, 114, 100, 101, 114,
      115, 46, 117, 115, 101, 114, 95, 105, 100>>
\* "orders.id = payments.order_id"
OnOrdersPayments ==
    <<111, 114, 100, 101, 114, 115, 46, 105, 100, 32, 61, 32, 112, 97, 121, 109,
      101, 110, 116, 115, 46, 111, 114, 100, 101, 114, 95, 105, 100>>
\* "users.id = payments.user_id"
OnUsersPayments ==
    <<117, 115, 101, 114, 115, 46, 105, 100, 32, 61, 32, 112, 97, 121, 109, 101,
      110, 116, 115, 46, 117, 115, 101, 114, 95, 105, 100>>

\* strategy.GetBaseTableName() as text
BaseText(base) ==
    IF base = "users" THEN TextUsers
    ELSE IF base = "orders" THEN TextOrders
    ELSE TextPayments

\* strings.ReplaceAll(s, old, new) for a non-empty old: the occurrences of old
\* from the left, none overlapping
RECURSIVE ReplaceAllFrom(_, _, _, _)
ReplaceAllFrom(s, old, new, i) ==
    LET at == IndexFrom(s, old, i)
    IN  IF at = 0 THEN SubSeq(s, i, Len(s))
        ELSE SubSeq(s, i, at - 1) \o new \o ReplaceAllFrom(s, old, new, at + Len(old))

ReplaceAll(s, old, new) == ReplaceAllFrom(s, old, new, 1)

Dot == <<46>>

replaceTableNamesInCondition(condition, mainBaseName, mainAlias, joinBaseName, joinAlias) ==
    LET afterMain == IF mainBaseName # mainAlias
                     THEN ReplaceAll(condition, mainBaseName \o Dot, mainAlias \o Dot)
                     ELSE condition
    IN  IF joinBaseName # joinAlias
        THEN ReplaceAll(afterMain, joinBaseName \o Dot, joinAlias \o Dot)
        ELSE afterMain

\* the alias of a table: its configured alias, or its base name when none is set
AliasOf(info) == IF info.Alias # << >> THEN info.Alias ELSE BaseText(info.Strategy.base)

\* one JOIN clause: "<JoinType> JOIN <table> AS <alias> ON <condition>"
JoinClause(config, joinInfo, joinTableName) ==
    [joinType |-> joinInfo.JoinType, table |-> joinTableName, alias |-> AliasOf(joinInfo),
     on |-> replaceTableNamesInCondition(joinInfo.OnCondition,
                                         BaseText(config.MainTable.Strategy.base),
                                         AliasOf(config.MainTable),
                                         BaseText(joinInfo.Strategy.base),
                                         AliasOf(joinInfo))]

\* the statement built for one tuple: db.Table("<main> AS <alias>") and one
\* JOIN clause for each joined table, in the order of config.JoinTables
StatementOf(config, combination) ==
    [tables |-> combination,
     main |-> [table |-> combination[1], alias |-> AliasOf(config.MainTable)],
     joins |-> [i \in 1..Len(config.JoinTables) |->
                   JoinClause(config, config.JoinTables[i], combination[i + 1])]]

\* the error of query.Find on the statement of one tuple
StatementReply(store, combination) ==
    IF \E i \in 1..Len(combination) : store[combination[i]] = "locked" THEN ErrLockWait
    ELSE IF \E i \in 1..Len(combination) : store[combination[i]] = "missing"
    THEN ErrNoSuchTable
    ELSE NoError

\* the loop over the tuples in CrossTableMultiJoin and CrossTableMultiJoinCount:
\* the statements executed, and the error that ended the loop
RECURSIVE StatementsFrom(_, _, _, _, _)
StatementsFrom(store, config, combinations, i, executed) ==
    IF i > Len(combinations) THEN [err |-> NoError, statements |-> executed]
    ELSE LET reply == StatementReply(store, combinations[i])
             sofar == Append(executed, StatementOf(config, combinations[i]))
         IN  IF reply = NoError \/ isMissingTuple(reply)
             THEN StatementsFrom(store, config, combinations, i + 1, sofar)
             ELSE [err |-> reply, statements |-> sofar]

\* the name lists of the joined tables, in the order of config.JoinTables
joinTableNamesList(config) ==
    [i \in 1..Len(config.JoinTables) |->
        GetAllTableNames(config.JoinTables[i].Strategy, config.JoinTables[i].Strategy.base)]

mainTableNames(config) ==
    GetAllTableNames(config.MainTable.Strategy, config.MainTable.Strategy.base)

\* the statements of one call of CrossTableMultiJoin or CrossTableMultiJoinCount
MultiJoinStatements(store, config) ==
    LET tableCombinations == generateTableCombinations(mainTableNames(config),
                                                       joinTableNamesList(config))
    IN  [tableCombinations |-> tableCombinations]
            @@ StatementsFrom(store, config, tableCombinations, 1, << >>)

JoinInfo(base, n, on, alias) ==
    [Strategy |-> NewHashShardingStrategy(base, n), JoinType |-> InnerJoin,
     OnCondition |-> on, Alias |-> alias]

\* a table without a custom alias, or with the first letter of its name as alias
AliasChoices(base) == {<< >>, <<BaseText(base)[1]>>}

MainInfos == {JoinInfo("users", n, << >>, a) : n \in 1..MaxJoinShards, a \in AliasChoices("users")}
OrderInfos ==
    {JoinInfo("orders", n, OnUsersOrders, a) :
         n \in 1..MaxJoinShards, a \in AliasChoices("orders")}
PaymentInfos ==
    {JoinInfo("payments", n, on, a) :
         n \in 1..MaxJoinShards, on \in {OnOrdersPayments, OnUsersPayments},
         a \in AliasChoices("payments")}

\* users alone, users with orders, users with orders and payments
StatementConfigs ==
    {[MainTable |-> m, JoinTables |-> << >>] : m \in MainInfos}
        \cup {[MainTable |-> m, JoinTables |-> <<o>>] : m \in MainInfos, o \in OrderInfos}
        \cup {[MainTable |-> m, JoinTables |-> <<o, p>>] :
                  m \in MainInfos, o \in OrderInfos, p \in PaymentInfos}

TablesOf(config) ==
    SeqRange(mainTableNames(config))
        \cup UNION {SeqRange(joinTableNamesList(config)[i]) : i \in 1..Len(config.JoinTables)}

\* every table present, or one of them missing or locked
StatementStores(config) ==
    {[t \in TablesOf(config) |-> "ok"]}
        \cup {[t \in TablesOf(config) |-> IF t = troubled THEN state ELSE "ok"] :
                  troubled \in TablesOf(config), state \in {"missing", "locked"}}

InitStatements ==
    /\ clock = 0
    /\ ctor = Ctor("hash", "users", 1, 0)
    /\ strategy = Build(ctor)
    /\ lastCall = NoCall
    /\ firstCall = NoCall
    /\ NoExtraction
    /\ NoFanOut
    /\ NoPaging /\ NoDedup /\ NoWrite
    /\ \E config \in StatementConfigs :
           /\ joinCall = [op |-> "statements", config |-> config]
           /\ shards \in StatementStores(config)
    /\ joined = [op |-> "statements", done |-> FALSE]

\* the tuple loop of one CrossTableMultiJoin call
CallMultiJoinLoop ==
    /\ joinCall.op = "statements"
    /\ ~joined.done
    /\ \E executed \in {MultiJoinStatements(shards, joinCall.config)} :
           joined' = [op |-> "statements", done |-> TRUE, fn |-> "CrossTableMultiJoin"]
                         @@ executed
    /\ UNCHANGED <<nameVars, extractVars, queryVars, pageVars, dedupVars,
                   shards, joinCall, writeVars>>

\* the tuple loop of one CrossTableMultiJoinCount call
CallMultiJoinCountLoop ==
    /\ joinCall.op = "statements"
    /\ ~joined.done
    /\ \E executed \in {MultiJoinStatements(shards, joinCall.config)} :
           joined' = [op |-> "statements", done |-> TRUE, fn |-> "CrossTableMultiJoinCount"]
                         @@ executed
    /\ UNCHANGED <<nameVars, extractVars, queryVars, pageVars, dedupVars,
                   shards, joinCall, writeVars>>

NextStatements ==
    \/ CallMultiJoinLoop
    \/ CallMultiJoinCountLoop

SpecStatements == InitStatements /\ [][NextStatements]_vars

StatementsIssued == joinCall.op = "statements" /\ joined.done

\* the lists the product is taken over: the main list, then each join list
ProductLists(config) == <<mainTableNames(config)>> \o joinTableNamesList(config)

\* the product of the sizes of the lists from position i on
RECURSIVE SizeFrom(_, _)
SizeFrom(lists, i) == IF i > Len(lists) THEN 1 ELSE Len(lists[i]) * SizeFrom(lists, i + 1)

\* the k-th tuple of the product in lexicographic order, first list slowest:
\* position i counts in steps of the sizes of the lists after it
ProductTuple(lists, k) ==
    [i \in 1..Len(lists) |->
        lists[i][(((k - 1) \div SizeFrom(lists, i + 1)) % Len(lists[i])) + 1]]

CartesianProduct(lists) == [k \in 1..SizeFrom(lists, 1) |-> ProductTuple(lists, k)]

\* the tuples of the statements executed, in the order of execution
QueriedTuples == [i \in 1..Len(joined.statements) |-> joined.statements[i].tables]

IsPrefix(a, b) == Len(a) <= Len(b) /\ a = SubSeq(b, 1, Len(a))

\* C24: generateTableCombinations returns the Cartesian product of the main
\* list and the join lists in main-major lexicographic order, no tuple missing
\* or repeated; the join and the count execute one statement per tuple in that
\* order, up to the tuple whose error ends the call, and all of them when the
\* call ends without error
C24_OneStatementPerProductTuple ==
    StatementsIssued =>
        /\ joined.tableCombinations = CartesianProduct(ProductLists(joinCall.config))
        /\ Cardinality(SeqRange(joined.tableCombinations)) = Len(joined.tableCombinations)
        /\ IsPrefix(QueriedTuples, joined.tableCombinations)
        /\ joined.err = NoError => QueriedTuples = joined.tableCombinations
        /\ joined.err # NoError =>
               ~isMissingTuple(joined.err)
               /\ \A i \in 1..(Len(QueriedTuples) - 1) :
                      StatementReply(shards, QueriedTuples[i]) \in {NoError, ErrNoSuchTable}

\* a call over users, orders and payments with two shards somewhere, all
\* tuples executed, one of them skipped for a missing table
C24_Witness ==
    /\ StatementsIssued
    /\ Len(joinCall.config.JoinTables) = 2
    /\ Len(joined.tableCombinations) >= 4
    /\ joined.err = NoError
    /\ Len(joined.statements) = Len(joined.tableCombinations)
    /\ \E t \in DOMAIN shards : shards[t] = "missing"

IsNameChar(c) ==
    \/ c >= 97 /\ c <= 122
    \/ c >= 65 /\ c <= 90
    \/ IsDigit(c)
    \/ c = 95

\* where the name ending at position i of s starts
RECURSIVE NameStart(_, _)
NameStart(s, i) == IF i >= 1 /\ IsNameChar(s[i]) THEN NameStart(s, i - 1) ELSE i + 1

\* the table prefixes of a condition: the names written before a dot
TablePrefixes(condition) ==
    {SubSeq(condition, NameStart(condition, i - 1), i - 1) :
         i \in {j \in 1..Len(condition) : condition[j] = Dot[1]}}

\* the aliases a statement defines
AliasesDefined(statement) ==
    {statement.main.alias} \cup {statement.joins[i].alias : i \in 1..Len(statement.joins)}

\* the configured alias, else the logical base name
ConfiguredAlias(info) ==
    IF Len(info.Alias) > 0 THEN info.Alias ELSE BaseText(info.Strategy.base)

\* C25: in every statement of a multi-way join each table carries its
\* configured alias, or else its logical base name, and every table prefix of
\* every rewritten ON-condition is an alias the statement defines, also when
\* the condition names the main table or an earlier joined table that has a
\* custom alias
C25_ConditionsReferToAliases ==
    StatementsIssued =>
        \A k \in 1..Len(joined.statements) :
            LET statement == joined.statements[k]
            IN  /\ statement.main.alias = ConfiguredAlias(joinCall.config.MainTable)
                /\ \A i \in 1..Len(statement.joins) :
                       /\ statement.joins[i].alias =
                              ConfiguredAlias(joinCall.config.JoinTables[i])
                       /\ TablePrefixes(statement.joins[i].on) \subseteq
                              AliasesDefined(statement)


(***************************************************************************)
(* ShardingHelper.Create over the registered strategies                    *)
(***************************************************************************)
\* UserID `gorm:"column:user_id"`
FieldUserIDColumn(v) ==
    [name |-> <<85, 115, 101, 114, 73, 68>>,
     gorm |-> <<99, 111, 108, 117, 109, 110, 58, 117, 115, 101, 114, 95, 105, 100>>,
     json |-> << >>, exported |-> TRUE, value |-> v]
\* OrderID `gorm:"column:order_id"`
FieldOrderIDColumn(v) ==
    [name |-> <<79, 114, 100, 101, 114, 73, 68>>,
     gorm |-> <<99, 111, 108, 117, 109, 110, 58, 111, 114, 100, 101, 114, 95, 105, 100>>,
     json |-> << >>, exported |-> TRUE, value |-> v]

\* a record of the logical table it is a row of
RecordOf(table, fields) == [kind |-> "ptr", table |-> table, fields |-> fields]

\* &User{UserID}, &Order{OrderID, UserID}, &Item{Name}
HelperRecords ==
    {RecordOf("users", <<FieldUserIDColumn(u)>>) : u \in 1..MaxUserID}
        \cup {RecordOf("orders", <<FieldOrderIDColumn(o), FieldUserIDColumn(u)>>) :
                  o \in 1..MaxUserID, u \in 1..MaxUserID}
        \cup {RecordOf("items", <<FieldName>>)}

\* a registered strategy with the sharding key it was constructed with
Registered(st, shardingKey) == [strategy |-> st, shardingKey |-> shardingKey]

\* users sharded on user_id; orders sharded on user_id or on order_id
Registrations ==
    {Registered(NewHashShardingStrategy("users", n), ColUserID) : n \in 1..MaxJoinShards}
        \cup {Registered(NewHashShardingStrategy("orders", n), key) :
                  n \in 1..MaxJoinShards, key \in {ColUserID, ColOrderID}}

\* the table a registered strategy resolves for a record it can read the key of
ResolvedBy(entry, value, now) ==
    GetTableName(entry.strategy, entry.strategy.base,
                 IntKey("int", W64FromInt(GetShardingValue(value, entry.shardingKey).value)),
                 now).name

\* for baseTableName, strategy := range h.strategies, ranged over in the given
\* order from position i: the first strategy that reads its key takes the write
RECURSIVE CreateFrom(_, _, _, _, _)
CreateFrom(registry, order, i, value, now) ==
    IF i > Len(order)
    THEN [op |-> "Create", table |-> NoName, err |-> "no matching sharding strategy found"]
    ELSE IF GetShardingValue(value, registry[order[i]].shardingKey).ok
    THEN Insert("Create", ResolvedBy(registry[order[i]], value, now))
    ELSE CreateFrom(registry, order, i + 1, value, now)

\* ShardingHelper.Create(value) when the map is ranged over in this order
Create(registry, order, value, now) == CreateFrom(registry, order, 1, value, now)

InitHelper ==
    /\ clock = 0
    /\ ctor = Ctor("hash", "users", 1, 0)
    /\ strategy = Build(ctor)
    /\ lastCall = NoCall
    /\ firstCall = NoCall
    /\ NoExtraction
    /\ NoFanOut
    /\ EntryPointsIdle

\* h.RegisterStrategy(strategy): h.strategies[baseTableName] = strategy
RegisterStrategy(entry) ==
    /\ inserted.op = "none"
    /\ strategies' = (entry.strategy.base :> entry) @@ strategies
    /\ UNCHANGED <<nameVars, extractVars, queryVars, pageVars, dedupVars, joinVars, inserted>>

\* h.Create(value); the map is ranged over in any order
CallCreate(value) ==
    /\ inserted.op = "none"
    /\ model' = value
    /\ \E order \in MapOrders(DOMAIN strategies) :
           inserted' = Create(strategies, order, value, Now)
    /\ UNCHANGED <<nameVars, fieldName, extracted, queryVars, pageVars, dedupVars,
                   joinVars, strategies>>

NextHelper ==
    \/ \E entry \in Registrations : RegisterStrategy(entry)
    \/ \E value \in HelperRecords : CallCreate(value)

SpecHelper == InitHelper /\ [][NextHelper]_vars

\* the registered strategies that can read their sharding key from the record
Extracting(value) ==
    {base \in DOMAIN strategies : GetShardingValue(value, strategies[base].shardingKey).ok}

\* C26: ShardingHelper.Create inserts into the shard resolved by the strategy
\* registered for the record's own logical table, whatever the order the
\* strategies are ranged over, and returns an error without an insert when no
\* registered strategy can extract a shard key
C26_CreateUsesOwnStrategy ==
    inserted.op = "Create" =>
        /\ (model.table \in Extracting(model)) =>
               /\ inserted.err = "none"
               /\ inserted.table = ResolvedBy(strategies[model.table], model, Now)
        /\ \A order \in MapOrders(DOMAIN strategies) :
               Create(strategies, order, model, Now) = inserted
        /\ (Extracting(model) = {}) => (inserted.err # "none" /\ inserted.table = NoName)


(***************************************************************************)
(* CrossTableJoin and CrossTableJoinOptimized: one statement per pair      *)
(***************************************************************************)
\* the skip test of CrossTableJoin: strings.Contains(err.Error(), "doesn't exist")
isMissingPair(err) == Contains(err, PhraseDoesntExist)

\* db.Table(table1).Joins("<joinType> JOIN <table2> ON <onCondition>")
PairStatement(table1, joinType, table2, onCondition) ==
    [table |-> table1, joinType |-> joinType, join |-> table2, on |-> onCondition]

\* the error of query.Find on the statement of one pair
PairReply(store, table1, table2) ==
    IF store[table1].state # "ok" THEN Find(store[table1], "nil").err
    ELSE Find(store[table2], "nil").err

\* the nested loops of CrossTableJoin from the pair (i, j) on: the statements
\* executed and the error that ended the loops
RECURSIVE PairsFrom(_, _, _, _, _)
PairsFrom(store, call, i, j, executed) ==
    IF i > Len(call.tableNames1) THEN [err |-> NoError, statements |-> executed]
    ELSE IF j > Len(call.tableNames2) THEN PairsFrom(store, call, i + 1, 1, executed)
    ELSE LET reply == PairReply(store, call.tableNames1[i], call.tableNames2[j])
             sofar == Append(executed,
                             PairStatement(call.tableNames1[i], call.joinType,
                                           call.tableNames2[j], call.onCondition))
         IN  IF reply = NoError \/ isMissingPair(reply)
             THEN PairsFrom(store, call, i, j + 1, sofar)
             ELSE [err |-> reply, statements |-> sofar]

CrossTableJoin(store, strategy1, strategy2, joinType, onCondition, now) ==
    PairsFrom(store,
              [tableNames1 |-> QueryTableNames(strategy1, NilKey, NilKey, now),
               tableNames2 |-> QueryTableNames(strategy2, NilKey, NilKey, now),
               joinType |-> joinType, onCondition |-> onCondition],
              1, 1, << >>)

\* return CrossTableJoin(db, strategy1, strategy2, joinType, joinKey, dest, queryBuilder)
CrossTableJoinOptimized(store, strategy1, strategy2, joinType, joinKey, now) ==
    CrossTableJoin(store, strategy1, strategy2, joinType, joinKey, now)

PairConfigs ==
    {[strategy1 |-> NewHashShardingStrategy("users", n),
      strategy2 |-> NewHashShardingStrategy("orders", m), joinType |-> joinType] :
         n \in 1..MaxJoinShards, m \in 1..MaxJoinShards, joinType \in JoinTypes}

PairTables(config) ==
    SeqRange(GetAllTableNames(config.strategy1, config.strategy1.base))
        \cup SeqRange(GetAllTableNames(config.strategy2, config.strategy2.base))

\* tables without rows: every one present, or one of them missing or locked
PairStores(config) ==
    {[t \in PairTables(config) |-> [state |-> "ok", rows |-> << >>]]}
        \cup {[t \in PairTables(config) |->
                  [state |-> IF t = troubled THEN state ELSE "ok", rows |-> << >>]] :
                  troubled \in PairTables(config), state \in {"missing", "locked"}}

InitPairJoin ==
    /\ clock = 0
    /\ ctor = Ctor("hash", "users", 1, 0)
    /\ strategy = Build(ctor)
    /\ lastCall = NoCall
    /\ firstCall = NoCall
    /\ NoExtraction
    /\ NoFanOut
    /\ NoPaging /\ NoDedup /\ NoWrite
    /\ \E config \in PairConfigs :
           /\ joinCall = [op |-> "pair join", config |-> config]
           /\ shards \in PairStores(config)
    /\ joined = [op |-> "pair join", done |-> FALSE]

\* CrossTableJoin(db, users, orders, joinType, "users.id = orders.user_id", &dest, nil)
CallCrossTableJoin ==
    /\ joinCall.op = "pair join"
    /\ ~joined.done
    /\ \E executed \in {CrossTableJoin(shards, joinCall.config.strategy1,
                                       joinCall.config.strategy2, joinCall.config.joinType,
                                       OnUsersOrders, Now)} :
           joined' = [op |-> "pair join", done |-> TRUE, fn |-> "CrossTableJoin",
                      joinKey |-> << >>] @@ executed
    /\ UNCHANGED <<nameVars, extractVars, queryVars, pageVars, dedupVars,
                   shards, joinCall, writeVars>>

\* CrossTableJoinOptimized(db, users, orders, joinType, "user_id", &dest, nil)
CallCrossTableJoinOptimized ==
    /\ joinCall.op = "pair join"
    /\ ~joined.done
    /\ \E executed \in {CrossTableJoinOptimized(shards, joinCall.config.strategy1,
                                                joinCall.config.strategy2,
                                                joinCall.config.joinType, ColUserID, Now)} :
           joined' = [op |-> "pair join", done |-> TRUE, fn |-> "CrossTableJoinOptimized",
                      joinKey |-> ColUserID] @@ executed
    /\ UNCHANGED <<nameVars, extractVars, queryVars, pageVars, dedupVars,
                   shards, joinCall, writeVars>>

NextPairJoin ==
    \/ CallCrossTableJoin
    \/ CallCrossTableJoinOptimized

SpecPairJoin == InitPairJoin /\ [][NextPairJoin]_vars

\* values of the join key
JoinKeyValues == {IntValue(k) : k \in 0..MaxSmallKey}

\* two shard tables are related through the join key: some key value is
\* routed to both
RelatedPair(config, table1, table2) ==
    \E v \in JoinKeyValues :
        /\ GetTableName(config.strategy1, config.strategy1.base, v, Now).name = table1
        /\ GetTableName(config.strategy2, config.strategy2.base, v, Now).name = table2

\* " = "
TextEquals == <<32, 61, 32>>

\* "<base1>.<joinKey> = <base2>.<joinKey>"
KeyEquality(config, joinKey) ==
    BaseText(config.strategy1.base) \o Dot \o joinKey \o TextEquals
        \o BaseText(config.strategy2.base) \o Dot \o joinKey

\* C27: CrossTableJoinOptimized joins only the pairs of shard tables related
\* through the join key (users_i with orders_i when both are sharded on it),
\* and joins them on equality of joinKey
C27_OptimizedJoinsRelatedPairs ==
    (/\ joinCall.op = "pair join"
     /\ joined.done
     /\ joined.fn = "CrossTableJoinOptimized") =>
        \A k \in 1..Len(joined.statements) :
            /\ RelatedPair(joinCall.config, joined.statements[k].table,
                           joined.statements[k].join)
            /\ joined.statements[k].on = KeyEquality(joinCall.config, joined.joinKey)

(***************************************************************************)
(* CrossTablePaginate while another client writes to the shards: the count *)
(* fan-out and the data fan-out are two separate reads of the store        *)
(***************************************************************************)
MaxClientWrites == 1

\* rows another client inserts: one the filter "even" selects and one it does not
ClientRows == {5, 6}

InitConcurrentPaginate ==
    /\ clock = 0
    /\ ctor \in PageConfigs
    /\ strategy = Build(ctor)
    /\ lastCall = NoCall
    /\ firstCall = NoCall
    /\ NoExtraction
    /\ tables \in [SeqRange(CountTableNames(strategy, Now)) -> TableStates]
    /\ dest = << >>
    /\ fanout = Idle
    /\ issued = << >>
    /\ fetched = << >>
    /\ outcome = Pending
    /\ NoPaging /\ NoDedup /\ NoJoin /\ NoWrite

\* CrossTablePaginate up to the return of CrossTableCount
PaginateCount(page, pageSize, filter) ==
    /\ fanout = Idle
    /\ paginator.op = "none"
    /\ \E counted \in {CountAll(tables, strategy, filter, Now)} :
           IF counted.err # NoError
           THEN /\ paginator' = [op |-> "CrossTablePaginate", filter |-> filter,
                                 merged |-> << >>] @@ NoPaginator(counted.err, dest)
                /\ fanout' = fanout
           ELSE /\ fanout' = [op |-> "paginate", filter |-> filter,
                              page |-> EffectivePage(page),
                              pageSize |-> EffectivePageSize(pageSize),
                              counted |-> counted]
                /\ paginator' = paginator
    /\ UNCHANGED <<nameVars, extractVars, tables, dest, issued, fetched, outcome,
                   sweep, dedupVars, joinVars, writeVars>>

\* CrossTablePaginate from CrossTableQuery to its return
PaginateQuery ==
    /\ fanout.op = "paginate"
    /\ \E queried \in {QueryAll(tables, strategy, fanout.filter, dest, Now)} :
       \E p \in {PaginatorOf(fanout.page, fanout.pageSize, fanout.counted,
                             [before |-> dest] @@ queried)} :
           /\ paginator' = [op |-> "CrossTablePaginate", filter |-> fanout.filter,
                            merged |-> queried.dest] @@ p
           /\ dest' = p.dest
    /\ fanout' = Idle
    /\ UNCHANGED <<nameVars, extractVars, tables, issued, fetched, outcome,
                   sweep, dedupVars, joinVars, writeVars>>

\* another client inserts a row into a shard
ClientInsert(name, row) ==
    /\ Len(issued) < MaxClientWrites
    /\ paginator.op = "none"
    /\ tables[name].state = "ok"
    /\ tables' = [tables EXCEPT ![name].rows = Append(@, row)]
    /\ issued' = Append(issued, [op |-> "insert", table |-> name,
                                 during |-> fanout.op = "paginate"])
    /\ UNCHANGED <<nameVars, extractVars, dest, fanout, fetched, outcome, entryVars>>

\* another client deletes the oldest row of a shard
ClientDelete(name) ==
    /\ Len(issued) < MaxClientWrites
    /\ paginator.op = "none"
    /\ tables[name].state = "ok"
    /\ tables[name].rows # << >>
    /\ tables' = [tables EXCEPT ![name].rows = Tail(@)]
    /\ issued' = Append(issued, [op |-> "delete", table |-> name,
                                 during |-> fanout.op = "paginate"])
    /\ UNCHANGED <<nameVars, extractVars, dest, fanout, fetched, outcome, entryVars>>

NextConcurrentPaginate ==
    \/ \E page \in Pages, pageSize \in PageSizes, filter \in Filters :
           PaginateCount(page, pageSize, filter)
    \/ PaginateQuery
    \/ \E name \in DOMAIN tables, row \in ClientRows : ClientInsert(name, row)
    \/ \E name \in DOMAIN tables : ClientDelete(name)

SpecConcurrentPaginate == InitConcurrentPaginate /\ [][NextConcurrentPaginate]_vars

\* C29: the Total of a CrossTablePaginate call is the length of the merged
\* rows its page was sliced from, also when another client inserts or deletes
\* rows between the count fan-out and the data fan-out of the call
C29_TotalDescribesPagedData ==
    (Paged /\ paginator.op = "CrossTablePaginate" /\ "merged" \in DOMAIN paginator) =>
        /\ paginator.total = Len(paginator.merged)
        /\ paginator.totalPages = TotalPagesOf(Len(paginator.merged), paginator.pageSize)


(***************************************************************************)
(* One error message answered to every fan-out entry point                 *)
(***************************************************************************)
\* "ERROR 1146 (42S02): TABLE 'APP.SHARD' DOESN'T EXIST"
ErrNoSuchTableUpper ==
    <<69, 82, 82, 79, 82, 32, 49, 49, 52, 54, 32, 40, 52, 50, 83, 48, 50, 41,
      58, 32, 84, 65, 66, 76, 69, 32, 39, 65, 80, 80, 46, 83, 72, 65, 82, 68,
      39, 32, 68, 79, 69, 83, 78, 39, 84, 32, 69, 88, 73, 83, 84>>
\* "Error 1051 (42S02): Unknown table 'app.shard'"
ErrUnknownTable ==
    <<69, 114, 114, 111, 114, 32, 49, 48, 53, 49, 32, 40, 52, 50, 83, 48, 50,
      41, 58, 32, 85, 110, 107, 110, 111, 119, 110, 32, 116, 97, 98, 108,
      101, 32, 39, 97, 112, 112, 46, 115, 104, 97, 114, 100, 39>>
\* "Table "shard" not found"
ErrTableNotFound ==
    <<84, 97, 98, 108, 101, 32, 34, 115, 104, 97, 114, 100, 34, 32, 110, 111,
      116, 32, 102, 111, 117, 110, 100>>
\* "Error 1054 (42S22): Unknown column 'users.id' in 'on clause'"
ErrUnknownColumn ==
    <<69, 114, 114, 111, 114, 32, 49, 48, 53, 52, 32, 40, 52, 50, 83, 50, 50,
      41, 58, 32, 85, 110, 107, 110, 111, 119, 110, 32, 99, 111, 108, 117,
      109, 110, 32, 39, 117, 115, 101, 114, 115, 46, 105, 100, 39, 32, 105,
      110, 32, 39, 111, 110, 32, 99, 108, 97, 117, 115, 101, 39>>
\* "no such table: shard"
ErrNoSuchTableSqlite ==
    <<110, 111, 32, 115, 117, 99, 104, 32, 116, 97, 98, 108, 101, 58, 32,
      115, 104, 97, 114, 100>>

\* messages a store answers for a table it cannot read
ErrorMessages ==
    {ErrNoSuchTable, ErrNoSuchTableUpper, ErrUnknownTable, ErrTableNotFound,
     ErrUnknownColumn, ErrNoSuchTableSqlite, ErrLockWait}

EntryPoints ==
    {"CrossTableQuery", "CrossTableCount", "CrossTableJoin", "CrossTableMultiJoin",
     "CrossTableMultiJoinCount"}

\* users with a shard that answers the message, and orders, all without rows
ClassifyStores(config, message) ==
    {[t \in PairTables(config) |->
         IF t = failing THEN [state |-> "failing", rows |-> << >>, err |-> message]
         ELSE [state |-> "ok", rows |-> << >>]] :
         failing \in SeqRange(GetAllTableNames(config.strategy1, config.strategy1.base))}

InitClassify ==
    /\ clock = 0
    /\ ctor = Ctor("hash", "users", 1, 0)
    /\ strategy = Build(ctor)
    /\ lastCall = NoCall
    /\ firstCall = NoCall
    /\ NoExtraction
    /\ NoFanOut
    /\ NoPaging /\ NoDedup /\ NoWrite
    /\ \E config \in {c \in PairConfigs : c.joinType = InnerJoin /\ c.strategy2.count = 1},
          message \in ErrorMessages :
           /\ joinCall = [op |-> "classify", config |-> config, message |-> message]
           /\ shards \in ClassifyStores(config, message)
    /\ joined = [op |-> "classify", results |-> [fn \in EntryPoints |-> "not called"]]

\* a call that met the failing shard either skipped it or returned its error
Classified(err) == IF err = NoError THEN "skipped" ELSE "aborted"

Returns(fn, err) ==
    /\ joinCall.op = "classify"
    /\ joined.results[fn] = "not called"
    /\ joined' = [joined EXCEPT !.results[fn] = Classified(err)]
    /\ UNCHANGED <<nameVars, extractVars, queryVars, pageVars, dedupVars,
                   shards, joinCall, writeVars>>

\* the multi-join configuration over the two strategies
ClassifyConfig ==
    [MainTable |-> joinCall.config.strategy1, JoinTable |-> joinCall.config.strategy2,
     JoinType |-> joinCall.config.joinType, DeduplicateFields |-> << >>]

ClassifyCrossTableQuery ==
    /\ joinCall.op = "classify"
    /\ Returns("CrossTableQuery",
               QueryAll(shards, joinCall.config.strategy1, "nil", << >>, Now).err)

ClassifyCrossTableCount ==
    /\ joinCall.op = "classify"
    /\ Returns("CrossTableCount", CountAll(shards, joinCall.config.strategy1, "nil", Now).err)

ClassifyCrossTableJoin ==
    /\ joinCall.op = "classify"
    /\ Returns("CrossTableJoin",
               CrossTableJoin(shards, joinCall.config.strategy1, joinCall.config.strategy2,
                              joinCall.config.joinType, OnUsersOrders, Now).err)

ClassifyCrossTableMultiJoin ==
    /\ joinCall.op = "classify"
    /\ \E found \in {AllTupleRows(shards, ClassifyConfig, "nil")} :
       \E orders \in RowOrders(found.rows) :
           Returns("CrossTableMultiJoin",
                   CrossTableMultiJoin(found, ClassifyConfig, orders, << >>, "map").err)

ClassifyCrossTableMultiJoinCount ==
    /\ joinCall.op = "classify"
    /\ \E found \in {AllTupleRows(shards, ClassifyConfig, "nil")} :
       \E orders \in RowOrders(found.rows) :
           Returns("CrossTableMultiJoinCount",
                   CrossTableMultiJoinCount(found, ClassifyConfig, orders).err)

NextClassify ==
    \/ ClassifyCrossTableQuery
    \/ ClassifyCrossTableCount
    \/ ClassifyCrossTableJoin
    \/ ClassifyCrossTableMultiJoin
    \/ ClassifyCrossTableMultiJoinCount

SpecClassify == InitClassify /\ [][NextClassify]_vars

\* C30: every fan-out entry point classifies an error message alike: a
\* message that makes CrossTableQuery or CrossTableCount skip the shard makes
\* CrossTableJoin, CrossTableMultiJoin and CrossTableMultiJoinCount skip the
\* tuple, and a message that aborts one entry point aborts all of them
C30_SameClassificationEverywhere ==
    joinCall.op = "classify" =>
        \A fn, gn \in EntryPoints :
            (joined.results[fn] # "not called" /\ joined.results[gn] # "not called") =>
                joined.results[fn] = joined.results[gn]

=============================================================================
